---- MODULE Spec2Model ----
(***************************************************************************)
(* Model of the content-resolution pipeline of src/server.js: the handler  *)
(* of POST /api/fetch-content (validation, page fetch, the five textual    *)
(* extraction strategies, the Puppeteer fallback, the response) and the    *)
(* ffmpeg muxer with its file cache.                                       *)
(*                                                                         *)
(* Strings are sequences of tokens.  A token is a piece of text no regular *)
(* expression of the program looks inside: "&" and "?" are the separators, *)
(* "amp;" is the text that follows "&" in the entity "&amp;", "stp=1" is a *)
(* query parameter with its value, and so on.  The JavaScript value null,  *)
(* undefined and the empty string are all the empty sequence: the program  *)
(* only ever tests them for truthiness.                                    *)
(***************************************************************************)
EXTENDS Integers, Sequences, FiniteSets, TLC

(***************************************************************************)
(* String helpers.                                                         *)
(***************************************************************************)
Range(s) == {s[i] : i \in 1..Len(s)}

\* String.prototype.replace(/literal/g, rep): leftmost, non-overlapping.
RECURSIVE ReplaceAll(_, _, _)
ReplaceAll(s, pat, rep) ==
    IF Len(s) < Len(pat) THEN s
    ELSE IF SubSeq(s, 1, Len(pat)) = pat
         THEN rep \o ReplaceAll(SubSeq(s, Len(pat) + 1, Len(s)), pat, rep)
         ELSE <<Head(s)>> \o ReplaceAll(Tail(s), pat, rep)

\* The longest prefix of s holding no token of stop.
RECURSIVE TakeUntil(_, _)
TakeUntil(s, stop) ==
    IF s = <<>> \/ Head(s) \in stop THEN <<>>
    ELSE <<Head(s)>> \o TakeUntil(Tail(s), stop)

DropN(s, n) == SubSeq(s, n + 1, Len(s))

\* .replace(/\\u0026/g,'&').replace(/\\\//g,'/').replace(/\\u003d/g,'=')
UnescapeToken(t) ==
    CASE t = "\\u0026" -> "&"
      [] t = "\\/"     -> "/"
      [] t = "\\u003d" -> "="
      [] OTHER         -> t

UnescapeJs(s) == [i \in 1..Len(s) |-> UnescapeToken(s[i])]

\* The thumbnail's chain has no = replacement.
UnescapeTokenThumb(t) ==
    CASE t = "\\u0026" -> "&"
      [] t = "\\/"     -> "/"
      [] OTHER         -> t

UnescapeJsThumb(s) == [i \in 1..Len(s) |-> UnescapeTokenThumb(s[i])]

(***************************************************************************)
(* decodeUrlEntities: passes of nine replacements until nothing changes.   *)
(***************************************************************************)
UrlDecodePass(s) ==
    LET a == ReplaceAll(s, <<"&", "amp;">>,  <<"&">>)
        b == ReplaceAll(a, <<"&", "lt;">>,   <<"<">>)
        c == ReplaceAll(b, <<"&", "gt;">>,   <<">">>)
        d == ReplaceAll(c, <<"&", "quot;">>, <<"\"">>)
        e == ReplaceAll(d, <<"&", "#x27;">>, <<"'">>)
        f == ReplaceAll(e, <<"&", "#x2F;">>, <<"/">>)
        g == ReplaceAll(f, <<"&", "#x3D;">>, <<"=">>)
        h == ReplaceAll(g, <<"&", "#39;">>,  <<"'">>)
    IN  ReplaceAll(h, <<"&", "#x2F;">>, <<"/">>)

\* One pass and no more.
UrlDecodeOnce(s) == UrlDecodePass(s)

\* while (decoded !== previous): passes until one changes nothing.
RECURSIVE UrlDecodeLoop(_)
UrlDecodeLoop(s) ==
    LET t == UrlDecodePass(s) IN IF t = s THEN s ELSE UrlDecodeLoop(t)

decodeUrlEntities(url) == IF url = <<>> THEN url ELSE UrlDecodeLoop(url)

(***************************************************************************)
(* The size-constraint stripping sequence, the same thirteen replacements  *)
(* in the inline scan, findMediaData, parseJsonLd, parseSharedData and     *)
(* parseMetaTags.                                                          *)
(***************************************************************************)
Separators == {"?", "&"}

RemovedParams ==
    << {"stp=1"}, {"_nc_cat=1"}, {"ccb=1"}, {"_nc_sid=1"}, {"efg=1"},
       {"_nc_ohc=1"}, {"_nc_oc=1"}, {"_nc_zt=1"}, {"_nc_ht=1"}, {"_nc_gid=1"} >>

\* .replace(/[?&]key=[^&]*/g, ''): a separator, the parameter, and all that
\* follows up to the next "&".
RECURSIVE RemoveParam(_, _)
RemoveParam(s, key) ==
    IF Len(s) < 2 THEN s
    ELSE IF s[1] \in Separators /\ s[2] \in key
         THEN LET rest == DropN(s, 2)
                  eaten == TakeUntil(rest, {"&"})
              IN  RemoveParam(DropN(rest, Len(eaten)), key)
         ELSE <<Head(s)>> \o RemoveParam(Tail(s), key)

RECURSIVE RemoveParams(_, _)
RemoveParams(s, i) ==
    IF i > Len(RemovedParams) THEN s
    ELSE RemoveParams(RemoveParam(s, RemovedParams[i]), i + 1)

\* Tokens that match /\/s\d+x\d+[a-z]?_[a-z]+-jpg/.
SizeSegments == {"/s640x640_e-jpg"}

\* .replace(/\/s\d+x\d+[a-z]?_[a-z]+-jpg[^?&]*/g, '')
RECURSIVE RemoveSizeSegment(_)
RemoveSizeSegment(s) ==
    IF s = <<>> THEN s
    ELSE IF Head(s) \in SizeSegments
         THEN LET eaten == TakeUntil(Tail(s), Separators)
              IN  RemoveSizeSegment(DropN(Tail(s), Len(eaten)))
         ELSE <<Head(s)>> \o RemoveSizeSegment(Tail(s))

\* .replace(/[?&]+/g, (match, offset) => offset === 0 ? '?' : '&')
RECURSIVE CleanSeparatorsFrom(_, _)
CleanSeparatorsFrom(s, offset) ==
    IF s = <<>> THEN s
    ELSE IF Head(s) \in Separators
         THEN LET run == TakeUntil(s, {t \in Range(s) : t \notin Separators})
              IN  <<IF offset = 0 THEN "?" ELSE "&">>
                      \o CleanSeparatorsFrom(DropN(s, Len(run)), offset + Len(run))
         ELSE <<Head(s)>> \o CleanSeparatorsFrom(Tail(s), offset + 1)

CleanSeparators(s) == CleanSeparatorsFrom(s, 0)

\* .replace(/\?$/, '')
RemoveTrailingQuestion(s) ==
    IF s # <<>> /\ s[Len(s)] = "?" THEN SubSeq(s, 1, Len(s) - 1) ELSE s

\* A sequence without the separator clean-up.
StripWithoutCleanUp(mediaUrl) ==
    RemoveTrailingQuestion(RemoveSizeSegment(RemoveParams(mediaUrl, 1)))

\* Lines 232-250, and the same lines of the four parsers.
StripSizeConstraints(mediaUrl) ==
    RemoveTrailingQuestion(
        CleanSeparators(RemoveSizeSegment(RemoveParams(mediaUrl, 1))))

(***************************************************************************)
(* decodeHtmlEntities: one pass, no loop.  A numeric entity is a token     *)
(* such as "#38;" (decimal) or "#x26;" (hexadecimal) after "&".            *)
(***************************************************************************)
HexEntities == {"#x27;", "#x26;"}
DecEntities == {"#39;", "#38;"}

\* String.fromCodePoint(parseInt(...)).
CodePointChar(t) ==
    CASE t \in {"#x27;", "#39;"} -> "'"
      [] t \in {"#x26;", "#38;"} -> "&"
      [] OTHER                   -> t

\* .replace(/<prefix>#...;/g, (match, n) => String.fromCodePoint(n)) for the
\* numeric entities of class.
RECURSIVE ReplaceNumeric(_, _, _)
ReplaceNumeric(s, prefix, class) ==
    LET n == Len(prefix) + 1 IN
    IF Len(s) < n THEN s
    ELSE IF SubSeq(s, 1, n - 1) = prefix /\ s[n] \in class
         THEN <<CodePointChar(s[n])>> \o ReplaceNumeric(DropN(s, n), prefix, class)
         ELSE <<Head(s)>> \o ReplaceNumeric(Tail(s), prefix, class)

decodeHtmlEntities(text) ==
    IF text = <<>> THEN <<>>
    ELSE
    LET a == ReplaceNumeric(text, <<"&", "amp;">>, HexEntities)
        b == ReplaceNumeric(a, <<"&", "amp;">>, DecEntities)
        c == ReplaceAll(b, <<"&", "amp;", "quot;">>, <<"\"">>)
        d == ReplaceAll(c, <<"&", "amp;", "apos;">>, <<"'">>)
        e == ReplaceAll(d, <<"&", "amp;", "lt;">>, <<"<">>)
        f == ReplaceAll(e, <<"&", "amp;", "gt;">>, <<">">>)
        g == ReplaceAll(f, <<"&", "quot;">>, <<"\"">>)
        h == ReplaceAll(g, <<"&", "amp;">>, <<"&">>)
        i == ReplaceAll(h, <<"&", "lt;">>, <<"<">>)
        j == ReplaceAll(i, <<"&", "gt;">>, <<">">>)
        k == ReplaceAll(j, <<"&", "apos;">>, <<"'">>)
        l == ReplaceNumeric(k, <<"&">>, DecEntities)
        m == ReplaceNumeric(l, <<"&">>, HexEntities)
        n == ReplaceAll(m, <<"\\", "n">>, <<"LF">>)
        o == ReplaceAll(n, <<"\\", "r">>, <<"CR">>)
        p == ReplaceAll(o, <<"\\", "t">>, <<"TAB">>)
        q == ReplaceAll(p, <<"\\", "\"">>, <<"\"">>)
    IN  ReplaceAll(q, <<"\\", "\\">>, <<"\\">>)

(***************************************************************************)
(* Records.  NoRecord is JavaScript's null; NoTime is a null timestamp.    *)
(***************************************************************************)
NoTime == 0 - 1

NoRecord ==
    [mediaUrl |-> <<>>, thumbnailUrl |-> <<>>, caption |-> <<>>,
     author |-> <<>>, mediaType |-> "null", timestamp |-> NoTime]

Unknown == <<"Unknown">>

Or(a, b) == IF a # <<>> THEN a ELSE b

\* new Date(seconds * 1000).toISOString(), as milliseconds since the epoch.
IsoOfSeconds(ts) == ts * 1000

(***************************************************************************)
(* Strategy 1: the inline-field scan of the handler.  A page h gives, for  *)
(* each regular expression of the scan, the text of its first match (<<>>  *)
(* when it does not match) and, for display_resources, the entries of the  *)
(* array: [src, w, h, cfg], cfg telling whether the entry is written with  *)
(* config_width and config_height as the first expression wants it.        *)
(***************************************************************************)
InlineVideoMatch(h) == Or(h.video_url, Or(h.playback_url, h.video_versions))

\* A loop that lets a later entry of the same area take the place of an
\* earlier one.
RECURSIVE InlineBestFromLast(_, _, _)
InlineBestFromLast(rs, maxResolution, bestUrl) ==
    IF rs = <<>> THEN bestUrl
    ELSE LET resolution == Head(rs).w * Head(rs).h IN
         IF resolution >= maxResolution /\ resolution > 0
         THEN InlineBestFromLast(Tail(rs), resolution, Head(rs).src)
         ELSE InlineBestFromLast(Tail(rs), maxResolution, bestUrl)

\* The for loop keeping the first entry of the greatest area above 0.
RECURSIVE InlineBestFrom(_, _, _)
InlineBestFrom(rs, maxResolution, bestUrl) ==
    IF rs = <<>> THEN bestUrl
    ELSE LET resolution == Head(rs).w * Head(rs).h IN
         IF resolution > maxResolution
         THEN InlineBestFrom(Tail(rs), resolution, Head(rs).src)
         ELSE InlineBestFrom(Tail(rs), maxResolution, bestUrl)

InlineBest(rs) == InlineBestFrom(rs, 0, <<>>)

\* A scan whose fallback takes the first src of the array.
InlineHighQualityFirst(h) ==
    LET rs == h.display_resources
        withConfig == SelectSeq(rs, LAMBDA r : r.cfg)
        fromResources ==
            IF withConfig # <<>>
            THEN decodeUrlEntities(UnescapeJs(InlineBest(withConfig)))
            ELSE IF rs # <<>>
                 THEN decodeUrlEntities(UnescapeJs(rs[1].src))
                 ELSE <<>>
    IN  IF fromResources # <<>> THEN fromResources
        ELSE decodeUrlEntities(UnescapeJs(h.best_image_url))

\* Lines 146-212: the array's best entry, else its last src, else the
\* best_image_url text.
InlineHighQuality(h) ==
    LET rs == h.display_resources
        withConfig == SelectSeq(rs, LAMBDA r : r.cfg)
        fromResources ==
            IF withConfig # <<>>
            THEN decodeUrlEntities(UnescapeJs(InlineBest(withConfig)))
            ELSE IF rs # <<>>
                 THEN decodeUrlEntities(UnescapeJs(rs[Len(rs)].src))
                 ELSE <<>>
    IN  IF fromResources # <<>> THEN fromResources
        ELSE decodeUrlEntities(UnescapeJs(h.best_image_url))

InlineTimestamp(h) ==
    IF h.has_timestamp THEN IsoOfSeconds(h.taken_at_timestamp) ELSE NoTime

\* A scan that strips the size constraints of videos as well.
InlineCleanedAlways(videoUrlMatch, mediaUrl) ==
    IF mediaUrl # <<>> THEN StripSizeConstraints(mediaUrl) ELSE mediaUrl

\* Lines 231-250: only an image URL is stripped.
InlineCleaned(videoUrlMatch, mediaUrl) ==
    IF videoUrlMatch = <<>> /\ mediaUrl # <<>>
    THEN StripSizeConstraints(mediaUrl)
    ELSE mediaUrl

InlineScan(h) ==
    LET videoUrlMatch == InlineVideoMatch(h)
        highQualityImageUrl == InlineHighQuality(h)
        first == decodeUrlEntities(UnescapeJs(Or(videoUrlMatch, h.display_url)))
        chosen == IF videoUrlMatch = <<>> /\ highQualityImageUrl # <<>>
                  THEN decodeUrlEntities(highQualityImageUrl)
                  ELSE first
        mediaUrl == InlineCleaned(videoUrlMatch, chosen)
        thumbnailUrl ==
            decodeUrlEntities(
                UnescapeJsThumb(Or(h.display_url, Or(h.thumbnail_src, mediaUrl))))
    IN  IF (videoUrlMatch # <<>> \/ h.display_url # <<>>) /\ mediaUrl # <<>>
        THEN [mediaUrl |-> mediaUrl,
              thumbnailUrl |-> thumbnailUrl,
              caption |-> decodeHtmlEntities(h.caption),
              author |-> Or(h.username, Unknown),
              mediaType |-> IF videoUrlMatch # <<>> THEN "video" ELSE "image",
              timestamp |-> InlineTimestamp(h)]
        ELSE NoRecord

(***************************************************************************)
(* Strategy 2: the embedded-script JSON search.  A script is [marker,      *)
(* cands]: marker tells whether its text holds video_url or display_url,   *)
(* cands are the bracket regions the candidate expression finds in it, in  *)
(* order.  A candidate is [bad, root, kids]: bad when JSON.parse throws,   *)
(* else the parsed object and the objects nested in it (the expression     *)
(* admits one level of nesting).                                           *)
(***************************************************************************)
\* The for loop of findMediaData and parseSharedData: entries lacking src,
\* config_width or config_height are skipped.
RECURSIVE ObjectBestFrom(_, _, _)
ObjectBestFrom(rs, maxResolution, bestSrc) ==
    IF rs = <<>> THEN bestSrc
    ELSE LET r == Head(rs)
             resolution == r.w * r.h
         IN  IF r.src # <<>> /\ r.w # 0 /\ r.h # 0 /\ resolution > maxResolution
             THEN ObjectBestFrom(Tail(rs), resolution, r.src)
             ELSE ObjectBestFrom(Tail(rs), maxResolution, bestSrc)

ObjectBest(rs) == ObjectBestFrom(rs, 0, <<>>)

ObjectTimestamp(obj) ==
    IF obj.has_timestamp /\ obj.taken_at_timestamp # 0
    THEN IsoOfSeconds(obj.taken_at_timestamp) ELSE NoTime

HasMediaField(obj) ==
    obj.video_url # <<>> \/ obj.display_url # <<>> \/ obj.has_resources

\* The body of findMediaData for an object that has a media field.
MediaRecordOf(obj) ==
    LET rs == obj.display_resources
        useResources == obj.video_url = <<>> /\ obj.has_resources /\ rs # <<>>
        best == ObjectBest(rs)
        last == IF rs # <<>> THEN rs[Len(rs)].src ELSE <<>>
        fromResources == useResources /\ (best # <<>> \/ last # <<>>)
        picked == IF best # <<>> THEN best ELSE last
        mediaUrl0 == IF fromResources THEN picked
                     ELSE Or(obj.video_url, obj.display_url)
        thumbnailUrl0 == IF fromResources THEN picked
                         ELSE Or(obj.display_url, Or(obj.thumbnail_src, obj.video_url))
        mediaUrl1 == decodeUrlEntities(mediaUrl0)
        mediaUrl == IF obj.video_url = <<>> /\ mediaUrl1 # <<>>
                    THEN StripSizeConstraints(mediaUrl1) ELSE mediaUrl1
    IN  [mediaUrl |-> mediaUrl,
         thumbnailUrl |-> decodeUrlEntities(thumbnailUrl0),
         caption |-> decodeHtmlEntities(obj.caption),
         author |-> Or(obj.username, Unknown),
         mediaType |-> IF obj.video_url # <<>> \/ obj.is_video
                       THEN "video" ELSE "image",
         timestamp |-> ObjectTimestamp(obj)]

RECURSIVE FindInKids(_)
FindInKids(kids) ==
    IF kids = <<>> THEN NoRecord
    ELSE IF HasMediaField(Head(kids)) THEN MediaRecordOf(Head(kids))
         ELSE FindInKids(Tail(kids))

findMediaData(cand) ==
    IF HasMediaField(cand.root) THEN MediaRecordOf(cand.root)
    ELSE FindInKids(cand.kids)

extractFromRequireData(cand) == findMediaData(cand)

\* The candidates of the scripts that pass the marker test, in order.
RECURSIVE ScriptCandidates(_)
ScriptCandidates(scripts) ==
    IF scripts = <<>> THEN <<>>
    ELSE (IF Head(scripts).marker THEN Head(scripts).cands ELSE <<>>)
             \o ScriptCandidates(Tail(scripts))

\* Loops that a candidate JSON.parse throws on brings to an end.
RECURSIVE ScriptLoopAborting(_, _)
ScriptLoopAborting(cands, postData) ==
    IF cands = <<>> \/ Head(cands).bad THEN postData
    ELSE LET got == extractFromRequireData(Head(cands))
         IN  IF got.mediaUrl # <<>> THEN got
             ELSE ScriptLoopAborting(Tail(cands), got)

\* The two nested loops: postData is assigned by every candidate that
\* parses, and both loops break at the first mediaUrl.
RECURSIVE ScriptLoop(_, _)
ScriptLoop(cands, postData) ==
    IF cands = <<>> THEN postData
    ELSE IF Head(cands).bad THEN ScriptLoop(Tail(cands), postData)
         ELSE LET got == extractFromRequireData(Head(cands))
              IN  IF got.mediaUrl # <<>> THEN got
                  ELSE ScriptLoop(Tail(cands), got)

EmbeddedScriptSearch(h, postData) ==
    ScriptLoop(ScriptCandidates(h.scripts), postData)

(***************************************************************************)
(* Strategy 3: JSON-LD.  h.jsonLd is [present, bad, has_video, contentUrl, *)
(* videoThumbnail, image, caption, author, date].                          *)
(***************************************************************************)
parseJsonLd(jsonLd) ==
    LET mediaUrl0 == decodeUrlEntities(Or(jsonLd.contentUrl, jsonLd.image))
        mediaUrl == IF ~jsonLd.has_video /\ mediaUrl0 # <<>>
                    THEN StripSizeConstraints(mediaUrl0) ELSE mediaUrl0
    IN  [mediaUrl |-> mediaUrl,
         thumbnailUrl |-> decodeUrlEntities(Or(jsonLd.videoThumbnail, mediaUrl)),
         caption |-> decodeHtmlEntities(jsonLd.caption),
         author |-> Or(jsonLd.author, Unknown),
         mediaType |-> IF jsonLd.has_video THEN "video" ELSE "image",
         timestamp |-> jsonLd.date]

JsonLdStrategy(h, postData) ==
    IF h.jsonLd.present /\ ~h.jsonLd.bad THEN parseJsonLd(h.jsonLd) ELSE postData

(***************************************************************************)
(* Strategy 4: window._sharedData.  h.sharedData is [present, bad,         *)
(* has_media, media], media the shortcode_media object.                    *)
(***************************************************************************)
parseSharedData(sharedData) ==
    IF ~sharedData.has_media THEN NoRecord
    ELSE
    LET media == sharedData.media
        isVideo == media.is_video
        rs == media.display_resources
        useResources == ~isVideo /\ media.has_resources /\ rs # <<>>
        best == ObjectBest(rs)
        last == IF rs # <<>> THEN rs[Len(rs)].src ELSE <<>>
        fromResources == useResources /\ (best # <<>> \/ last # <<>>)
        picked == IF best # <<>> THEN best ELSE last
        mediaUrl0 == IF fromResources THEN picked
                     ELSE IF isVideo THEN media.video_url ELSE media.display_url
        thumbnailUrl0 == IF fromResources THEN picked ELSE media.display_url
        mediaUrl1 == decodeUrlEntities(mediaUrl0)
        mediaUrl == IF ~isVideo /\ mediaUrl1 # <<>>
                    THEN StripSizeConstraints(mediaUrl1) ELSE mediaUrl1
    IN  [mediaUrl |-> mediaUrl,
         thumbnailUrl |-> decodeUrlEntities(thumbnailUrl0),
         caption |-> decodeHtmlEntities(media.caption),
         author |-> Or(media.username, Unknown),
         mediaType |-> IF isVideo THEN "video" ELSE "image",
         timestamp |-> ObjectTimestamp(media)]

SharedDataStrategy(h, postData) ==
    IF h.sharedData.present /\ ~h.sharedData.bad
    THEN parseSharedData(h.sharedData) ELSE postData

(***************************************************************************)
(* Strategy 5: the meta tags.  h.meta is [ogImage, ogVideo, twitterPlayer, *)
(* ogDesc, titleAuthor], titleAuthor the title cut at " on Instagram" and  *)
(* at "(@", trimmed.                                                       *)
(***************************************************************************)
parseMetaTags(meta) ==
    LET videoUrl == Or(meta.ogVideo, meta.twitterPlayer)
        imageUrl == meta.ogImage
        mediaUrl0 == decodeUrlEntities(Or(videoUrl, imageUrl))
        mediaUrl == IF videoUrl = <<>> /\ mediaUrl0 # <<>>
                    THEN StripSizeConstraints(mediaUrl0) ELSE mediaUrl0
    IN  IF Or(videoUrl, imageUrl) = <<>> THEN NoRecord
        ELSE [mediaUrl |-> mediaUrl,
              thumbnailUrl |-> Or(decodeUrlEntities(imageUrl), mediaUrl),
              caption |-> decodeHtmlEntities(meta.ogDesc),
              author |-> Or(meta.titleAuthor, Unknown),
              mediaType |-> IF videoUrl # <<>> THEN "video" ELSE "image",
              timestamp |-> NoTime]

(***************************************************************************)
(* The request URL.                                                        *)
(***************************************************************************)
Schemes == {"http://", "https://"}
Shortcodes == {"abc"}

AfterHost(url) ==
    IF Len(url) >= 2 /\ url[1] \in Schemes
    THEN IF url[2] = "www." /\ Len(url) >= 3 /\ url[3] = "instagram.com"
         THEN DropN(url, 3)
         ELSE IF url[2] = "instagram.com" THEN DropN(url, 2) ELSE <<"no match">>
    ELSE <<"no match">>

\* A pattern that lets every URL through.
instagramUrlPatternLax(url) == TRUE

\* /^https?:\/\/(www\.)?instagram\.com\/(p|reel|tv)\/[\w-]+\/?/.test(url)
instagramUrlPattern(url) ==
    LET rest == AfterHost(url)
    IN  Len(rest) >= 2 /\ rest[1] \in {"/p/", "/reel/", "/tv/"}
        /\ rest[2] \in Shortcodes

\* The three patterns of the page script, one per kind of post.
isValidInstagramUrl(url) ==
    \E kind \in {"/p/", "/reel/", "/tv/"} :
        LET rest == AfterHost(url)
        IN  Len(rest) >= 2 /\ rest[1] = kind /\ rest[2] \in Shortcodes

\* url.includes('/reel/') || url.includes('/tv/')
isVideoUrl(url) == "/reel/" \in Range(url) \/ "/tv/" \in Range(url)

(***************************************************************************)
(* The muxer's files.  The MD5 digest of the post URL is kept symbolic.    *)
(***************************************************************************)
Md5(instagramUrl) == <<"md5(">> \o instagramUrl \o <<")">>

\* A video path that leaves the hash of the post URL out.
videoPathUnhashed(instagramUrl) == <<"TEMP_DIR/", "video.mp4">>

videoPath(instagramUrl) == <<"TEMP_DIR/">> \o Md5(instagramUrl) \o <<"_video.mp4">>
audioPath(instagramUrl) == <<"TEMP_DIR/">> \o Md5(instagramUrl) \o <<"_audio.mp4">>
outputPath(instagramUrl) == <<"TEMP_DIR/">> \o Md5(instagramUrl) \o <<"_merged.mp4">>

\* `${BASE_URL}/temp/${path.basename(mergedVideoPath)}`
serverUrl(mergedVideoPath) == <<"BASE_URL", "/temp/">> \o Tail(mergedVideoPath)

(***************************************************************************)
(* The fallback's pure steps.                                              *)
(***************************************************************************)
\* The classification of one network response, [url, contentType].
IsMp4(resp) == ".mp4" \in Range(resp.url)

IsAudio(resp) ==
    Range(resp.url) \cap {"/t16/", "/m69/", "audio", "heaac"} # {}

IsCapturedMedia(resp) ==
    (resp.contentType = "video" \/ IsMp4(resp)) /\ IsMp4(resp)

IsThumbnail(resp) ==
    (resp.contentType = "image" \/ ".jpg" \in Range(resp.url))
    /\ Range(resp.url) \cap {"cdninstagram.com", "fbcdn.net"} # {}

qualityOrder == <<"q90", "q80", "q70", "q60", "q50", "q40">>

FirstWith(urls, quality) ==
    LET hits == SelectSeq(urls, LAMBDA u : quality \in Range(u))
    IN  IF hits = <<>> THEN <<>> ELSE Head(hits)

RECURSIVE BestVideoFrom(_, _)
BestVideoFrom(urls, i) ==
    IF i > Len(qualityOrder) THEN urls[1]
    ELSE LET found == FirstWith(urls, qualityOrder[i])
         IN  IF found # <<>> THEN found ELSE BestVideoFrom(urls, i + 1)

\* A selection that takes the first captured URL whatever the tokens.
bestVideoUrlFirst(urls) == urls[1]

\* Lines 919-933.
bestVideoUrl(urls) == BestVideoFrom(urls, 1)

\* cleanUrl: the parameters of the first query string that do not start
\* with bytestart or byteend.
ByteRangeParams == {"bytestart=0", "byteend=9"}

RECURSIVE SplitOn(_, _)
SplitOn(s, sep) ==
    LET first == TakeUntil(s, {sep})
    IN  IF Len(first) = Len(s) THEN <<first>>
        ELSE <<first>> \o SplitOn(DropN(s, Len(first) + 1), sep)

RECURSIVE JoinWith(_, _)
JoinWith(parts, sep) ==
    IF parts = <<>> THEN <<>>
    ELSE IF Len(parts) = 1 THEN parts[1]
         ELSE parts[1] \o <<sep>> \o JoinWith(Tail(parts), sep)

cleanUrl(url) ==
    IF url = <<>> THEN url
    ELSE LET pieces == SplitOn(url, "?")
             baseUrl == pieces[1]
             queryString == IF Len(pieces) >= 2 THEN pieces[2] ELSE <<>>
             kept == SelectSeq(SplitOn(queryString, "&"),
                               LAMBDA param : param = <<>> \/ Head(param) \notin ByteRangeParams)
         IN  IF queryString = <<>> THEN url
             ELSE baseUrl \o <<"?">> \o JoinWith(kept, "&")

\* The record the fallback returns for a media URL.
FallbackRecord(mediaUrl, thumbnailUrl, metadata) ==
    [mediaUrl |-> mediaUrl,
     thumbnailUrl |-> thumbnailUrl,
     caption |-> decodeHtmlEntities(
                     ReplaceAll(ReplaceAll(metadata.caption, <<"\\", "n">>, <<"LF">>),
                                <<"\\", "\"">>, <<"\"">>)),
     author |-> metadata.author,
     mediaType |-> "video",
     timestamp |-> NoTime]

(***************************************************************************)
(* The inputs: pages, request URLs, network responses.                     *)
(***************************************************************************)
EmptyObject ==
    [video_url |-> <<>>, playback_url |-> <<>>, video_versions |-> <<>>,
     display_url |-> <<>>, thumbnail_src |-> <<>>,
     display_resources |-> <<>>, has_resources |-> FALSE,
     best_image_url |-> <<>>, is_video |-> FALSE,
     caption |-> <<>>, username |-> <<>>,
     has_timestamp |-> FALSE, taken_at_timestamp |-> 0]

NoJsonLd ==
    [present |-> FALSE, bad |-> FALSE, has_video |-> FALSE, contentUrl |-> <<>>,
     videoThumbnail |-> <<>>, image |-> <<>>, caption |-> <<>>,
     author |-> <<>>, date |-> NoTime]

NoSharedData ==
    [present |-> FALSE, bad |-> FALSE, has_media |-> FALSE, media |-> EmptyObject]

NoMeta ==
    [ogImage |-> <<>>, ogVideo |-> <<>>, twitterPlayer |-> <<>>,
     ogDesc |-> <<>>, titleAuthor |-> <<>>]

EmptyPage ==
    [inline |-> EmptyObject, scripts |-> <<>>, jsonLd |-> NoJsonLd,
     sharedData |-> NoSharedData, meta |-> NoMeta]

Resource(src, w, h) == [src |-> src, w |-> w, h |-> h, cfg |-> TRUE]

\* What the inline expressions can find.
InlineChoices ==
    { EmptyObject,
      [EmptyObject EXCEPT !.video_url = <<"/v1", "?", "stp=1", "&", "amp;", "k=1">>,
                          !.display_url = <<"/d1", "?", "stp=1">>],
      [EmptyObject EXCEPT !.playback_url = <<"/v2">>,
                          !.video_versions = <<"/v3">>,
                          !.display_url = <<"/d1">>,
                          !.best_image_url = <<"/b1">>],
      [EmptyObject EXCEPT !.display_url = <<"/d1", "?", "stp=1", "&", "amp;", "k=1">>,
                          !.caption = <<"hi", "&", "amp;", "lt;">>,
                          !.username = <<"ann">>,
                          !.has_timestamp = TRUE, !.taken_at_timestamp = 7],
      [EmptyObject EXCEPT !.display_url = <<"/d1">>,
                          !.has_resources = TRUE,
                          !.display_resources =
                              << Resource(<<"/r1">>, 1, 1),
                                 Resource(<<"/r2", "\\u0026", "k=1">>, 2, 2),
                                 Resource(<<"/r3">>, 2, 2) >>] }

ScriptChoices ==
    { <<>>,
      << [marker |-> TRUE,
          cands |-> << [bad |-> TRUE, root |-> EmptyObject, kids |-> <<>>],
                       [bad |-> FALSE,
                        root |-> [EmptyObject EXCEPT !.display_url = <<"/sd", "&", "amp;", "k=1">>],
                        kids |-> <<>>] >>] >>,
      << [marker |-> TRUE,
          cands |-> << [bad |-> FALSE,
                        root |-> [EmptyObject EXCEPT !.has_resources = TRUE],
                        kids |-> <<>>] >>],
         [marker |-> FALSE,
          cands |-> << [bad |-> FALSE,
                        root |-> [EmptyObject EXCEPT !.display_url = <<"/hidden">>],
                        kids |-> <<>>] >>],
         [marker |-> TRUE,
          cands |-> << [bad |-> FALSE,
                        root |-> EmptyObject,
                        kids |-> << EmptyObject,
                                    [EmptyObject EXCEPT !.video_url = <<"/sv", "?", "stp=1">>,
                                                        !.display_url = <<"/sd">>] >>] >>] >> }

JsonLdChoices ==
    { NoJsonLd,
      [NoJsonLd EXCEPT !.present = TRUE, !.bad = TRUE],
      [NoJsonLd EXCEPT !.present = TRUE, !.image = <<"/ji", "?", "ccb=1">>,
                       !.author = <<"bob">>, !.date = 5000],
      [NoJsonLd EXCEPT !.present = TRUE, !.has_video = TRUE,
                       !.contentUrl = <<"/jv">>, !.image = <<"/ji">>] }

SharedDataChoices ==
    { NoSharedData,
      [NoSharedData EXCEPT !.present = TRUE, !.bad = TRUE],
      [NoSharedData EXCEPT !.present = TRUE],
      [NoSharedData EXCEPT !.present = TRUE, !.has_media = TRUE,
                           !.media = [EmptyObject EXCEPT !.display_url = <<"/gd">>]],
      [NoSharedData EXCEPT !.present = TRUE, !.has_media = TRUE,
                           !.media = [EmptyObject EXCEPT !.is_video = TRUE,
                                                         !.video_url = <<"/gv">>,
                                                         !.display_url = <<"/gd">>]] }

MetaChoices ==
    { NoMeta,
      [NoMeta EXCEPT !.ogImage = <<"/mi", "?", "_nc_ht=1", "&", "k=1">>,
                     !.titleAuthor = <<"cat">>],
      [NoMeta EXCEPT !.ogImage = <<"?", "stp=1">>],
      [NoMeta EXCEPT !.ogVideo = <<"/mv">>, !.ogImage = <<"/mi">>] }

Pages ==
    { [inline |-> i, scripts |-> sc, jsonLd |-> j, sharedData |-> sd, meta |-> m] :
        i \in InlineChoices, sc \in ScriptChoices, j \in JsonLdChoices,
        sd \in SharedDataChoices, m \in MetaChoices }

\* The pages of the whole handler's specification: one per way the textual
\* strategies can end.
SamplePages ==
    { h \in Pages :
        \/ h = EmptyPage
        \/ /\ h.scripts = <<>> /\ h.jsonLd = NoJsonLd /\ h.sharedData = NoSharedData
           /\ h.meta = NoMeta
        \/ /\ h.inline = EmptyObject /\ h.scripts = <<>> /\ h.jsonLd = NoJsonLd
           /\ h.sharedData = NoSharedData
        \/ /\ h.inline = EmptyObject /\ h.jsonLd = NoJsonLd
           /\ h.sharedData = NoSharedData /\ h.meta = NoMeta }

\* The longest URL text of the pages below, in tokens.
MaxUrlLen == 3

UrlTokens == {"/a", "?", "&", "amp;", "stp=1", "\\u0026"}

RECURSIVE StringsOfLen(_)
StringsOfLen(n) ==
    IF n = 0 THEN {<<>>}
    ELSE {Append(s, t) : s \in StringsOfLen(n - 1), t \in UrlTokens}

UrlStrings == UNION {StringsOfLen(n) : n \in 1..MaxUrlLen}

\* Pages with nothing but inline fields: every display_url text alone, and
\* every video_url text beside a display_url.
InlinePages ==
    {[EmptyPage EXCEPT !.inline = [EmptyObject EXCEPT !.display_url = d]] :
        d \in UrlStrings}
    \cup
    {[EmptyPage EXCEPT !.inline =
         [EmptyObject EXCEPT !.video_url = v,
                             !.display_url = <<"/d1", "?", "stp=1">>]] :
        v \in UrlStrings}

\* The longest display_resources array of the pages below.
MaxResources == 3

\* The config_width and config_height of an entry: a zero width, which the
\* loops skip, and four positive pairs, two of them of the same area.
Dimensions == {<<0, 1>>, <<1, 1>>, <<1, 2>>, <<2, 1>>, <<2, 2>>}

\* The src of the entry at position i: one text per position.
SrcAt(i) == [j \in 1..i |-> "/s"]

\* The arrays whose entries are written without config_width and
\* config_height.
UnsizedLists ==
    { [i \in 1..n |-> [src |-> SrcAt(i), w |-> 0, h |-> 0, cfg |-> FALSE]] :
        n \in 1..MaxResources }

\* Every display_resources array of 1 to MaxResources entries.
ResourceLists ==
    UNION { { [i \in 1..n |-> Resource(SrcAt(i), d[i][1], d[i][2])] :
                d \in [1..n -> Dimensions] } : n \in 1..MaxResources }
    \cup UnsizedLists

\* Pages with nothing but a display_resources array, in one of the three
\* places the handler reads one from: the raw text beside a display_url, the
\* object of an embedded script, the shortcode_media of _sharedData.
ResourcePages ==
    {[EmptyPage EXCEPT !.inline =
         [EmptyObject EXCEPT !.display_url = <<"/d1">>,
                             !.has_resources = TRUE,
                             !.display_resources = rs]] : rs \in ResourceLists}
    \cup
    {[EmptyPage EXCEPT !.scripts =
         << [marker |-> TRUE,
             cands |-> << [bad |-> FALSE,
                           root |-> [EmptyObject EXCEPT !.has_resources = TRUE,
                                                        !.display_resources = rs],
                           kids |-> <<>>] >>] >>] : rs \in ResourceLists}
    \cup
    {[EmptyPage EXCEPT !.sharedData =
         [present |-> TRUE, bad |-> FALSE, has_media |-> TRUE,
          media |-> [EmptyObject EXCEPT !.display_url = <<"/gd">>,
                                        !.has_resources = TRUE,
                                        !.display_resources = rs]]] :
        rs \in ResourceLists}

RequestUrls ==
    { <<>>,
      <<"https://", "www.", "instagram.com", "/p/", "abc", "/">>,
      <<"https://", "www.", "instagram.com", "/reel/", "abc", "/">>,
      <<"http://", "instagram.com", "/tv/", "abc">>,
      <<"https://", "instagram.com", "/p/", "abc", "/reel/">>,
      <<"https://", "www.", "instagram.com", "/stories/", "abc">>,
      <<"https://", "example.com", "/reel/", "abc">> }

Responses ==
    { [url |-> <<"cdn", "/m367/", "q60", ".mp4", "?", "bytestart=0", "&", "k=1">>,
       contentType |-> "video"],
      [url |-> <<"cdn", "/m367/", "q90", ".mp4">>, contentType |-> "video"],
      [url |-> <<"cdn", "/m69/", ".mp4", "?", "k=1", "&", "byteend=9">>,
       contentType |-> "video"],
      [url |-> <<"fbcdn.net", "/t", ".jpg">>, contentType |-> "image"] }

\* The longest entity-laden text of the pages below, in tokens.
MaxEntityLen == 4

\* "&" and what can follow it in an entity, and the backslash of an escape.
EntityTokens == {"&", "amp;", "lt;", "#39;", "\\"}

\* The texts of n tokens of tokens, and those of 1 to max tokens.
RECURSIVE TextsOfLen(_, _)
TextsOfLen(tokens, n) ==
    IF n = 0 THEN {<<>>}
    ELSE {Append(s, t) : s \in TextsOfLen(tokens, n - 1), t \in tokens}

TextsUpTo(tokens, max) == UNION {TextsOfLen(tokens, n) : n \in 1..max}

EntityStrings == TextsUpTo(EntityTokens, MaxEntityLen)

\* Pages with nothing but inline fields: a display_url that ends in each
\* text of EntityStrings, and each of them as the caption beside a plain
\* display_url.
EntityPages ==
    {[EmptyPage EXCEPT !.inline =
         [EmptyObject EXCEPT !.display_url = <<"/d1">> \o e]] : e \in EntityStrings}
    \cup
    {[EmptyPage EXCEPT !.inline =
         [EmptyObject EXCEPT !.display_url = <<"/d1">>, !.caption = e]] :
        e \in EntityStrings}

\* The longest URL of the pages below, in tokens.
MaxStripLen == 4

\* A path, the two separators, two of the removed parameters, a parameter
\* that is kept, and a size segment of the path.
StripTokens == {"/a", "?", "&", "stp=1", "ccb=1", "k=1", "/s640x640_e-jpg"}

StripStrings == TextsUpTo(StripTokens, MaxStripLen)

\* Pages with nothing but an inline display_url: each text of StripStrings.
StripPages ==
    {[EmptyPage EXCEPT !.inline = [EmptyObject EXCEPT !.display_url = u]] :
        u \in StripStrings}

\* The most candidates the script of the pages below holds.
MaxCands == 3

CandKinds == {"bad", "none", "image", "video", "nested"}

\* The candidate of a kind at position i of its script: one JSON.parse
\* throws on, an object without a media field, one with a display_url, one
\* with a video_url, one whose media fields are in a nested object.
Cand(kind, i) ==
    LET image == [EmptyObject EXCEPT !.display_url = SrcAt(i)]
    IN  [bad |-> kind = "bad",
         root |-> CASE kind = "image" -> image
                    [] kind = "video" -> [image EXCEPT !.video_url = SrcAt(i) \o <<".mp4">>]
                    [] OTHER -> EmptyObject,
         kids |-> IF kind = "nested" THEN <<EmptyObject, image>> ELSE <<>>]

\* Pages with one script of 1 to MaxCands candidates, with or without an
\* og:image for the last strategy to find.
ScriptPages ==
    {[EmptyPage EXCEPT !.scripts =
                           << [marker |-> TRUE,
                               cands |-> [i \in DOMAIN ks |-> Cand(ks[i], i)]] >>,
                       !.meta = m] :
        ks \in UNION {[1..k -> CandKinds] : k \in 1..MaxCands},
        m \in {NoMeta, [NoMeta EXCEPT !.ogImage = <<"/mi">>]}}

\* Pages whose sources say video or image with and without a video field:
\* a script object with or without is_video, video_url and display_url, a
\* JSON-LD block with or without a video and its contentUrl, a
\* shortcode_media with or without is_video and video_url, and the meta
\* tags of a video, of an image, or none.
TypedPages ==
    {[EmptyPage EXCEPT
        !.scripts = << [marker |-> TRUE,
                        cands |-> << [bad |-> FALSE,
                                      root |-> [EmptyObject EXCEPT
                                                   !.is_video = sv,
                                                   !.video_url = su,
                                                   !.display_url = sd],
                                      kids |-> <<>>] >>] >>,
        !.jsonLd = j, !.sharedData = g, !.meta = m] :
        sv \in BOOLEAN, su \in {<<>>, <<"/sv">>},
        sd \in {<<>>, <<"/sd", "?", "stp=1">>},
        j \in {NoJsonLd,
               [NoJsonLd EXCEPT !.present = TRUE, !.image = <<"/ji", "?", "stp=1">>],
               [NoJsonLd EXCEPT !.present = TRUE, !.has_video = TRUE,
                                !.image = <<"/ji", "?", "stp=1">>],
               [NoJsonLd EXCEPT !.present = TRUE, !.has_video = TRUE,
                                !.contentUrl = <<"/jv">>,
                                !.image = <<"/ji", "?", "stp=1">>]},
        g \in {NoSharedData} \cup
              {[NoSharedData EXCEPT
                  !.present = TRUE, !.has_media = TRUE,
                  !.media = [EmptyObject EXCEPT !.is_video = gv,
                                                !.video_url = gu,
                                                !.display_url = <<"/gd">>]] :
                  gv \in BOOLEAN, gu \in {<<>>, <<"/gv">>}},
        m \in {NoMeta, [NoMeta EXCEPT !.ogImage = <<"/mi">>],
               [NoMeta EXCEPT !.ogVideo = <<"/mv">>, !.ogImage = <<"/mi">>]}}

\* The quality tokens a video response's URL can hold: none, one, or two.
QualityTexts == { <<>>, <<"q90">>, <<"q60">>, <<"q40">>, <<"q60", "q90">> }

\* Video responses alone: two file names with each of the quality texts.
VideoResponses ==
    { [url |-> <<"cdn", "/m367/", name>> \o q \o <<".mp4">>, contentType |-> "video"] :
        name \in {"/v1", "/v2"}, q \in QualityTexts }

Metadatas ==
    { [caption |-> <<>>, author |-> Unknown],
      [caption |-> <<"hi", "\\", "n">>, author |-> <<"dan">>] }

FetchErrors == {"ECONNABORTED", "ETIMEDOUT", "status404", "other"}

Requests == {"r1"}

\* How many network responses one browser session observes at most.
MaxResponses == 2

\* The clock readings new Date() can give.
Times == {5000, 9000}

(***************************************************************************)
(* State.  Every variable but the file system is a function of the         *)
(* request.                                                                *)
(***************************************************************************)
VARIABLES
    pc,            \* where the request's handler stands
    url,           \* req.body.url
    html,          \* response.data of the page fetch
    postData,      \* the handler's postData
    trail,         \* the strategies that ran, each with the postData it left
    events,        \* what the request started: fetch, browser, mux, download
    browser,       \* "none" (null), "open" or "closed"
    videoUrls,     \* captured by the response listener
    audioUrls,
    thumbnailUrl,
    observed,      \* number of responses the listener has seen
    metadata,      \* what page.evaluate returned
    error,         \* the exception in flight or caught last, "none" if none
    puppeteerData, \* what extractWithPuppeteer returned
    muxResult,     \* "none", "resolved" or "rejected"
    downloads,     \* downloads the request's mux invocation has issued
    response,      \* [status, body] once sent
    files,         \* the paths that exist in TEMP_DIR
    partial        \* the paths among them that ffmpeg is still writing

reqVars == <<url, html, postData, trail, events>>
browserVars == <<browser, videoUrls, audioUrls, thumbnailUrl, observed, metadata,
                 puppeteerData>>
muxVars == <<muxResult, downloads, files, partial>>
vars == <<pc, url, html, postData, trail, events, browser, videoUrls, audioUrls,
          thumbnailUrl, observed, metadata, error, puppeteerData, muxResult,
          downloads, response, files, partial>>

NoResponse == [status |-> 0, body |-> NoRecord]

Reply(status) == [status |-> status, body |-> NoRecord]

Goto(r, label) == pc' = [pc EXCEPT ![r] = label]

Note(r, what) == events' = [events EXCEPT ![r] = @ \cup {what}]

InitWith(urls, seeded) ==
    /\ pc = [r \in Requests |-> "start"]
    /\ url \in [Requests -> urls]
    /\ html = [r \in Requests |-> EmptyPage]
    /\ postData = [r \in Requests |-> NoRecord]
    /\ trail = [r \in Requests |-> <<>>]
    /\ events = [r \in Requests |-> {}]
    /\ browser = [r \in Requests |-> "none"]
    /\ videoUrls = [r \in Requests |-> <<>>]
    /\ audioUrls = [r \in Requests |-> <<>>]
    /\ thumbnailUrl = [r \in Requests |-> <<>>]
    /\ observed = [r \in Requests |-> 0]
    /\ metadata = [r \in Requests |-> [caption |-> <<>>, author |-> <<>>]]
    /\ error = [r \in Requests |-> "none"]
    /\ puppeteerData = [r \in Requests |-> NoRecord]
    /\ muxResult = [r \in Requests |-> "none"]
    /\ downloads = [r \in Requests |-> 0]
    /\ response = [r \in Requests |-> NoResponse]
    /\ files \in seeded
    /\ partial = {}

\* TEMP_DIR at the start: empty, or holding the merged file an earlier
\* request left for one of the video posts.
CachedFiles ==
    {{}} \cup {{outputPath(u)} : u \in {v \in RequestUrls : isVideoUrl(v) /\ instagramUrlPattern(v)}}

Init == InitWith(RequestUrls, CachedFiles)

(***************************************************************************)
(* The handler of POST /api/fetch-content.                                 *)
(***************************************************************************)
\* Lines 77-93: the two 400 answers.
Validate(r) ==
    /\ pc[r] = "start"
    /\ IF url[r] = <<>> \/ ~instagramUrlPattern(url[r])
       THEN /\ response' = [response EXCEPT ![r] = Reply(400)]
            /\ Goto(r, "done")
       ELSE /\ Goto(r, "fetch")
            /\ UNCHANGED response
    /\ UNCHANGED <<reqVars, browserVars, muxVars, error>>

\* Lines 98-120: axios.get answers with one of pages.
FetchFrom(r, pages) ==
    /\ pc[r] = "fetch"
    /\ \E h \in pages : html' = [html EXCEPT ![r] = h]
    /\ Note(r, "fetch")
    /\ Goto(r, "s1")
    /\ UNCHANGED <<url, postData, trail, browserVars, muxVars, error, response>>

FetchPage(r) == FetchFrom(r, SamplePages)

FetchTextualPage(r) == FetchFrom(r, Pages \cup InlinePages)

\* An outer catch without the timeout test of line 416.
CatchStatusNoTimeout(e) == IF e = "status404" THEN 404 ELSE 500

\* Lines 409-427: the status the outer catch answers with.
CatchStatus(e) ==
    CASE e = "status404" -> 404
      [] e \in {"ECONNABORTED", "ETIMEDOUT"} -> 504
      [] OTHER -> 500

\* Lines 98-118 and 406-428: axios.get rejects; the outer catch answers.
FetchFails(r) ==
    /\ pc[r] = "fetch"
    /\ \E e \in FetchErrors :
        /\ error' = [error EXCEPT ![r] = e]
        /\ response' = [response EXCEPT ![r] = Reply(CatchStatus(e))]
    /\ Note(r, "fetch")
    /\ Goto(r, "done")
    /\ UNCHANGED <<url, html, postData, trail, browserVars, muxVars>>

\* A cascade without its short circuit: every strategy runs.
NoMediaYetUntested(data) == TRUE

\* if (!postData?.mediaUrl), the test before strategies 2 to 5.
NoMediaYet(data) == data.mediaUrl = <<>>

\* One strategy of the cascade: it runs unless postData has a mediaUrl (the
\* first has no test: postData is null before it).
RunStrategy(r, id, result, next) ==
    /\ IF id = 1 \/ NoMediaYet(postData[r])
       THEN /\ postData' = [postData EXCEPT ![r] = result]
            /\ trail' = [trail EXCEPT ![r] = Append(@, [id |-> id, out |-> result])]
       ELSE UNCHANGED <<postData, trail>>
    /\ Goto(r, next)
    /\ UNCHANGED <<url, html, events, browserVars, muxVars, error, response>>

\* Lines 123-269.
Strategy1(r) ==
    /\ pc[r] = "s1"
    /\ RunStrategy(r, 1, InlineScan(html[r].inline), "s2")

\* Lines 271-300.
Strategy2(r) ==
    /\ pc[r] = "s2"
    /\ RunStrategy(r, 2, EmbeddedScriptSearch(html[r], postData[r]), "s3")

\* Lines 302-316.
Strategy3(r) ==
    /\ pc[r] = "s3"
    /\ RunStrategy(r, 3, JsonLdStrategy(html[r], postData[r]), "s4")

\* Lines 318-332.
Strategy4(r) ==
    /\ pc[r] = "s4"
    /\ RunStrategy(r, 4, SharedDataStrategy(html[r], postData[r]), "s5")

\* Lines 334-340.
Strategy5(r) ==
    /\ pc[r] = "s5"
    /\ RunStrategy(r, 5, parseMetaTags(html[r].meta), "decide")

\* Lines 344-348: whether to call extractWithPuppeteer.
DecideFallback(r) ==
    /\ pc[r] = "decide"
    /\ IF isVideoUrl(url[r]) /\ postData[r].mediaType = "image"
       THEN Goto(r, "launch")
       ELSE Goto(r, "respond")
    /\ UNCHANGED <<reqVars, browserVars, muxVars, error, response>>

(***************************************************************************)
(* extractWithPuppeteer.                                                   *)
(***************************************************************************)
\* An await of the try block that throws: control goes to the catch.
Throws(r, what) ==
    /\ error' = [error EXCEPT ![r] = what]
    /\ Goto(r, "catch")

\* Lines 799-811: puppeteer.launch.
Launch(r) ==
    /\ pc[r] = "launch"
    /\ Note(r, "browser")
    /\ \/ /\ browser' = [browser EXCEPT ![r] = "open"]
          /\ Goto(r, "newPage")
          /\ UNCHANGED error
       \/ /\ Throws(r, "launch failed")
          /\ UNCHANGED browser
    /\ UNCHANGED <<url, html, postData, trail, videoUrls, audioUrls, thumbnailUrl,
                   observed, metadata, puppeteerData, muxVars, response>>

\* Line 813: browser.newPage.
NewPage(r) ==
    /\ pc[r] = "newPage"
    /\ \/ Goto(r, "setup") /\ UNCHANGED error
       \/ Throws(r, "newPage failed")
    /\ UNCHANGED <<reqVars, browserVars, muxVars, response>>

\* Lines 815-861: viewport, user agent, interception, the two listeners.
SetupPage(r) ==
    /\ pc[r] = "setup"
    /\ \/ Goto(r, "goto") /\ UNCHANGED error
       \/ Throws(r, "setup failed")
    /\ UNCHANGED <<reqVars, browserVars, muxVars, response>>

\* Lines 830-861: the response listener, live while the page is open, for a
\* response of responses.
OnResponseFrom(r, responses) ==
    /\ pc[r] \in {"goto", "settle", "evaluate"}
    /\ observed[r] < MaxResponses
    /\ observed' = [observed EXCEPT ![r] = @ + 1]
    /\ \E resp \in responses :
        /\ videoUrls' = [videoUrls EXCEPT ![r] =
               IF IsCapturedMedia(resp) /\ ~IsAudio(resp) THEN Append(@, resp.url) ELSE @]
        /\ audioUrls' = [audioUrls EXCEPT ![r] =
               IF IsCapturedMedia(resp) /\ IsAudio(resp) THEN Append(@, resp.url) ELSE @]
        /\ thumbnailUrl' = [thumbnailUrl EXCEPT ![r] =
               IF IsThumbnail(resp) /\ @ = <<>> THEN resp.url ELSE @]
    /\ UNCHANGED <<pc, reqVars, browser, metadata, puppeteerData, muxVars, error,
                   response>>

OnResponse(r) == OnResponseFrom(r, Responses)

OnVideoResponse(r) == OnResponseFrom(r, VideoResponses)

\* Lines 866-869: page.goto with the 30 s timeout.
Navigate(r) ==
    /\ pc[r] = "goto"
    /\ \/ Goto(r, "settle") /\ UNCHANGED error
       \/ Throws(r, "TimeoutError")
       \/ Throws(r, "navigation failed")
    /\ UNCHANGED <<reqVars, browserVars, muxVars, response>>

\* Line 872: the 5 s wait.
Settle(r) ==
    /\ pc[r] = "settle"
    /\ Goto(r, "evaluate")
    /\ UNCHANGED <<reqVars, browserVars, muxVars, error, response>>

\* Lines 875-910: page.evaluate.
Evaluate(r) ==
    /\ pc[r] = "evaluate"
    /\ \/ /\ \E m \in Metadatas : metadata' = [metadata EXCEPT ![r] = m]
          /\ Goto(r, "close")
          /\ UNCHANGED error
       \/ /\ Throws(r, "evaluate failed")
          /\ UNCHANGED metadata
    /\ UNCHANGED <<reqVars, browser, videoUrls, audioUrls, thumbnailUrl, observed,
                   puppeteerData, muxVars, response>>

\* Line 912: browser.close on the way out of the try block.
CloseBrowser(r) ==
    /\ pc[r] = "close"
    /\ browser' = [browser EXCEPT ![r] = "closed"]
    /\ Goto(r, "select")
    /\ UNCHANGED <<reqVars, videoUrls, audioUrls, thumbnailUrl, observed, metadata,
                   puppeteerData, muxVars, error, response>>

cleanVideoUrl(r) == cleanUrl(bestVideoUrl(videoUrls[r]))

\* A selection that fetches the video into TEMP_DIR even when there is no
\* audio to merge it with.
SelectMediaFetching(r) ==
    /\ pc[r] = "select"
    /\ IF videoUrls[r] = <<>>
       THEN /\ Goto(r, "returned")
            /\ UNCHANGED <<puppeteerData, events, files>>
       ELSE IF audioUrls[r] # <<>>
            THEN /\ Goto(r, "mCheck")
                 /\ Note(r, "mux")
                 /\ UNCHANGED <<puppeteerData, files>>
            ELSE /\ puppeteerData' = [puppeteerData EXCEPT ![r] =
                        FallbackRecord(cleanVideoUrl(r), thumbnailUrl[r], metadata[r])]
                 /\ Goto(r, "returned")
                 /\ Note(r, "download")
                 /\ files' = files \cup {videoPath(url[r])}
    /\ UNCHANGED <<url, html, postData, trail, browser, videoUrls, audioUrls,
                   thumbnailUrl, observed, metadata, muxResult, downloads, partial,
                   error, response>>

\* Lines 914-982: no video, video only, or video and audio to merge.
SelectMedia(r) ==
    /\ pc[r] = "select"
    /\ IF videoUrls[r] = <<>>
       THEN /\ Goto(r, "returned")
            /\ UNCHANGED <<puppeteerData, events>>
       ELSE IF audioUrls[r] # <<>>
            THEN /\ Goto(r, "mCheck")
                 /\ Note(r, "mux")
                 /\ UNCHANGED puppeteerData
            ELSE /\ puppeteerData' = [puppeteerData EXCEPT ![r] =
                        FallbackRecord(cleanVideoUrl(r), thumbnailUrl[r], metadata[r])]
                 /\ Goto(r, "returned")
                 /\ UNCHANGED events
    /\ UNCHANGED <<url, html, postData, trail, browser, videoUrls, audioUrls,
                   thumbnailUrl, observed, metadata, muxVars, error, response>>

\* A catch block that throws the error again without closing anything.
CatchWithoutClose(r) ==
    /\ pc[r] = "catch"
    /\ Goto(r, "rethrow")
    /\ UNCHANGED <<reqVars, browserVars, muxVars, error, response>>

\* Lines 984-987: the catch block closes the browser if there is one.
CatchClose(r) ==
    /\ pc[r] = "catch"
    /\ browser' = [browser EXCEPT ![r] = IF @ = "none" THEN @ ELSE "closed"]
    /\ Goto(r, "rethrow")
    /\ UNCHANGED <<reqVars, videoUrls, audioUrls, thumbnailUrl, observed, metadata,
                   puppeteerData, muxVars, error, response>>

\* A handler without the try of lines 346-355: the error thrown again
\* reaches the outer catch, which answers with its status.
RethrowUncaught(r) ==
    /\ pc[r] = "rethrow"
    /\ response' = [response EXCEPT ![r] = Reply(CatchStatus(error[r]))]
    /\ Goto(r, "done")
    /\ UNCHANGED <<reqVars, browserVars, muxVars, error>>

\* Lines 988 and 353-355: the error is thrown again and the handler's catch
\* logs it; postData stays as it was.
Rethrow(r) ==
    /\ pc[r] = "rethrow"
    /\ Goto(r, "respond")
    /\ UNCHANGED <<reqVars, browserVars, muxVars, error, response>>

\* A handler that drops what the fallback returned.
FallbackReturnedDropped(r) ==
    /\ pc[r] = "returned"
    /\ Goto(r, "respond")
    /\ UNCHANGED <<reqVars, browserVars, muxVars, error, response>>

\* Lines 348-352: the fallback returned; a video record replaces postData.
FallbackReturned(r) ==
    /\ pc[r] = "returned"
    /\ postData' = [postData EXCEPT ![r] =
           IF puppeteerData[r].mediaUrl # <<>> /\ puppeteerData[r].mediaType = "video"
           THEN puppeteerData[r] ELSE @]
    /\ Goto(r, "respond")
    /\ UNCHANGED <<url, html, trail, events, browserVars, muxVars, error, response>>

(***************************************************************************)
(* mergeVideoAudio(cleanVideoUrl, cleanAudioUrl, url) and downloadFile.    *)
(***************************************************************************)
Settles(r, how) ==
    /\ muxResult' = [muxResult EXCEPT ![r] = how]
    /\ Goto(r, "settled")

\* A muxer that joins a job in flight for the same key: it takes the key's
\* video file as the sign of one and waits for the output instead of
\* starting its own downloads.
MuxCheckJoining(r) ==
    /\ pc[r] = "mCheck"
    /\ videoPath(url[r]) \notin files \/ outputPath(url[r]) \in files
    /\ IF outputPath(url[r]) \in files
       THEN Settles(r, "resolved")
       ELSE Goto(r, "video") /\ UNCHANGED muxResult
    /\ UNCHANGED <<reqVars, browserVars, downloads, files, partial, error, response>>

\* A muxer without the cache test: it always downloads.
MuxCheckNoCache(r) ==
    /\ pc[r] = "mCheck"
    /\ Goto(r, "video")
    /\ UNCHANGED <<reqVars, browserVars, muxVars, error, response>>

\* Lines 1033-1037: the cache test.
MuxCheck(r) ==
    /\ pc[r] = "mCheck"
    /\ IF outputPath(url[r]) \in files
       THEN Settles(r, "resolved")
       ELSE Goto(r, "video") /\ UNCHANGED muxResult
    /\ UNCHANGED <<reqVars, browserVars, downloads, files, partial, error, response>>

\* Lines 1008-1013: downloadFile opens the write stream, which creates the
\* file, and issues the request.
DownloadStart(r, at, filepath, next) ==
    /\ pc[r] = at
    /\ files' = files \cup {filepath}
    /\ downloads' = [downloads EXCEPT ![r] = @ + 1]
    /\ Note(r, "download")
    /\ Goto(r, next)
    /\ UNCHANGED <<url, html, postData, trail, browserVars, muxResult, partial,
                   error, response>>

\* Lines 1015-1020: the write stream finishes.
DownloadFinish(r, at, next) ==
    /\ pc[r] = at
    /\ Goto(r, next)
    /\ UNCHANGED <<reqVars, browserVars, muxVars, error, response>>

\* Lines 1009-1013, 1019 and 1080-1082: the request is refused or the write
\* stream fails; the executor's catch rejects and deletes nothing.
DownloadFails(r, at) ==
    /\ pc[r] = at
    /\ error' = [error EXCEPT ![r] = "download failed"]
    /\ Settles(r, "rejected")
    /\ UNCHANGED <<reqVars, browserVars, downloads, files, partial, response>>

\* Lines 1015-1020: the response stream breaks or stalls; pipe ends the
\* writer on neither, so neither listener ever runs.
DownloadStalls(r, at) ==
    /\ pc[r] = at
    /\ Goto(r, "stalled")
    /\ UNCHANGED <<reqVars, browserVars, muxVars, error, response>>

VideoDownloadStart(r) == DownloadStart(r, "video", videoPath(url[r]), "videoWait")
VideoDownloadFinish(r) == DownloadFinish(r, "videoWait", "audio")
VideoDownloadFails(r) == DownloadFails(r, "videoWait")
VideoDownloadStalls(r) == DownloadStalls(r, "videoWait")
AudioDownloadStart(r) == DownloadStart(r, "audio", audioPath(url[r]), "audioWait")
AudioDownloadFinish(r) == DownloadFinish(r, "audioWait", "ffmpeg")
AudioDownloadFails(r) == DownloadFails(r, "audioWait")
AudioDownloadStalls(r) == DownloadStalls(r, "audioWait")

\* Lines 1047-1055 and 1079: ffmpeg starts and opens its output.
FfmpegRun(r) ==
    /\ pc[r] = "ffmpeg"
    /\ files' = files \cup {outputPath(url[r])}
    /\ partial' = partial \cup {outputPath(url[r])}
    /\ Goto(r, "ffmpegWait")
    /\ UNCHANGED <<reqVars, browserVars, muxResult, downloads, error, response>>

\* The two unlinkSync of the end handler: the first to throw ends the try.
UnlinkInputs(fs, instagramUrl) ==
    IF videoPath(instagramUrl) \in fs
    THEN fs \ {videoPath(instagramUrl), audioPath(instagramUrl)}
    ELSE fs

\* An end handler that leaves the two input files behind.
FfmpegEndKeepsInputs(r) ==
    /\ pc[r] = "ffmpegWait"
    /\ partial' = partial \ {outputPath(url[r])}
    /\ Settles(r, "resolved")
    /\ UNCHANGED <<reqVars, browserVars, downloads, files, error, response>>

\* Lines 1056-1066: the end handler.
FfmpegEnd(r) ==
    /\ pc[r] = "ffmpegWait"
    /\ files' = UnlinkInputs(files, url[r])
    /\ partial' = partial \ {outputPath(url[r])}
    /\ Settles(r, "resolved")
    /\ UNCHANGED <<reqVars, browserVars, downloads, error, response>>

\* Lines 1067-1078: the error handler deletes what exists of the three files.
FfmpegError(r) ==
    /\ pc[r] \in {"ffmpeg", "ffmpegWait"}
    /\ files' = files \ {videoPath(url[r]), audioPath(url[r]), outputPath(url[r])}
    /\ partial' = partial \ {outputPath(url[r])}
    /\ error' = [error EXCEPT ![r] = "ffmpeg failed"]
    /\ Settles(r, "rejected")
    /\ UNCHANGED <<reqVars, browserVars, downloads, response>>

\* A fallback that returns nothing when the merge is rejected.
MuxSettledOrNothing(r) ==
    /\ pc[r] = "settled"
    /\ puppeteerData' = [puppeteerData EXCEPT ![r] =
           IF muxResult[r] = "resolved"
           THEN FallbackRecord(serverUrl(outputPath(url[r])), thumbnailUrl[r],
                               metadata[r])
           ELSE NoRecord]
    /\ Goto(r, "returned")
    /\ UNCHANGED <<reqVars, browser, videoUrls, audioUrls, thumbnailUrl, observed,
                   metadata, muxVars, error, response>>

\* Lines 943-967: the merged file's URL, or the video alone if the promise
\* was rejected.
MuxSettled(r) ==
    /\ pc[r] = "settled"
    /\ puppeteerData' = [puppeteerData EXCEPT ![r] =
           FallbackRecord(IF muxResult[r] = "resolved"
                          THEN serverUrl(outputPath(url[r]))
                          ELSE cleanVideoUrl(r),
                          thumbnailUrl[r], metadata[r])]
    /\ Goto(r, "returned")
    /\ UNCHANGED <<reqVars, browser, videoUrls, audioUrls, thumbnailUrl, observed,
                   metadata, muxVars, error, response>>

(***************************************************************************)
(* The answer.                                                             *)
(***************************************************************************)
\* Lines 393-404: the last decoding and the timestamp of the answer.
ResponseBody(data, now) ==
    [data EXCEPT !.mediaUrl = decodeUrlEntities(@),
                 !.thumbnailUrl = decodeUrlEntities(@),
                 !.timestamp = now]

\* A handler without the test of line 359: it answers 200 with what it has.
RespondUntested(r) ==
    /\ pc[r] = "respond"
    /\ \E now \in Times :
           response' = [response EXCEPT ![r] =
               [status |-> 200, body |-> ResponseBody(postData[r], now)]]
    /\ Goto(r, "done")
    /\ UNCHANGED <<reqVars, browserVars, muxVars, error>>

\* Lines 358-404.
Respond(r) ==
    /\ pc[r] = "respond"
    /\ IF postData[r] = NoRecord \/ postData[r].mediaUrl = <<>>
       THEN response' = [response EXCEPT ![r] = Reply(404)]
       ELSE \E now \in Times :
                response' = [response EXCEPT ![r] =
                    [status |-> 200, body |-> ResponseBody(postData[r], now)]]
    /\ Goto(r, "done")
    /\ UNCHANGED <<reqVars, browserVars, muxVars, error>>

Handler(r) ==
    \/ Validate(r) \/ FetchPage(r) \/ FetchFails(r)
    \/ Strategy1(r) \/ Strategy2(r) \/ Strategy3(r) \/ Strategy4(r) \/ Strategy5(r)
    \/ DecideFallback(r) \/ FallbackReturned(r) \/ Rethrow(r) \/ Respond(r)

Fallback(r) ==
    \/ Launch(r) \/ NewPage(r) \/ SetupPage(r) \/ OnResponse(r) \/ Navigate(r)
    \/ Settle(r) \/ Evaluate(r) \/ CloseBrowser(r) \/ SelectMedia(r)
    \/ CatchClose(r) \/ MuxSettled(r)

Muxer(r) ==
    \/ MuxCheck(r)
    \/ VideoDownloadStart(r) \/ VideoDownloadFinish(r)
    \/ VideoDownloadFails(r) \/ VideoDownloadStalls(r)
    \/ AudioDownloadStart(r) \/ AudioDownloadFinish(r)
    \/ AudioDownloadFails(r) \/ AudioDownloadStalls(r)
    \/ FfmpegRun(r) \/ FfmpegEnd(r) \/ FfmpegError(r)

Next == \E r \in Requests : Handler(r) \/ Fallback(r) \/ Muxer(r)

Spec == Init /\ [][Next]_vars

\* The positions of a request.
Positions ==
    {"start", "fetch", "s1", "s2", "s3", "s4", "s5", "decide", "launch", "newPage",
     "setup", "goto", "settle", "evaluate", "close", "select", "catch", "rethrow",
     "mCheck", "video", "videoWait", "audio", "audioWait", "ffmpeg", "ffmpegWait",
     "stalled", "settled", "returned", "respond", "done"}

\* Request r goes on: its position changes.  Every position but two has a
\* continuation that the event loop will run (a promise that is settled,
\* a stream or process event, a timer that fires); there is none after
\* done, and none at stalled, where the only wake-up is the rest of a
\* stream that nothing obliges the network to deliver.
Continues(r) ==
    /\ pc[r] \notin {"done", "stalled"}
    /\ \E p \in Positions \ {pc[r]} : pc' = [pc EXCEPT ![r] = p]

\* The same program under a fair event loop.
SpecFair == Spec /\ \A r \in Requests : WF_pc(Continues(r))

(***************************************************************************)
(* The textual pipeline alone: a request for an image post (no fallback    *)
(* can start for it) answered from every page of Pages and InlinePages.    *)
(***************************************************************************)
ImagePostUrls == {u \in RequestUrls : instagramUrlPattern(u) /\ ~isVideoUrl(u)}

InitTextual == InitWith(ImagePostUrls, {{}})

NextTextual ==
    \E r \in Requests :
        \/ Validate(r) \/ FetchTextualPage(r)
        \/ Strategy1(r) \/ Strategy2(r) \/ Strategy3(r) \/ Strategy4(r) \/ Strategy5(r)
        \/ DecideFallback(r) \/ Respond(r)

SpecTextual == InitTextual /\ [][NextTextual]_vars

(***************************************************************************)
(* The muxer alone, under two requests at once: each job stands where its  *)
(* fallback has just called mergeVideoAudio, for a post URL of its own,    *)
(* and a job that has settled may be followed by the invocation of a later *)
(* request.                                                                *)
(***************************************************************************)
MuxJobs == {"j1", "j2"}

MuxUrls == {u \in RequestUrls : instagramUrlPattern(u) /\ isVideoUrl(u)}

InitMux ==
    /\ pc = [r \in MuxJobs |-> "mCheck"]
    /\ url \in [MuxJobs -> MuxUrls]
    /\ html = [r \in MuxJobs |-> EmptyPage]
    /\ postData = [r \in MuxJobs |-> NoRecord]
    /\ trail = [r \in MuxJobs |-> <<>>]
    /\ events = [r \in MuxJobs |-> {"mux"}]
    /\ browser = [r \in MuxJobs |-> "closed"]
    /\ videoUrls = [r \in MuxJobs |-> <<<<"cdn", "/m367/", "q90", ".mp4">>>>]
    /\ audioUrls = [r \in MuxJobs |-> <<<<"cdn", "/m69/", ".mp4">>>>]
    /\ thumbnailUrl = [r \in MuxJobs |-> <<>>]
    /\ observed = [r \in MuxJobs |-> 0]
    /\ metadata = [r \in MuxJobs |-> [caption |-> <<>>, author |-> Unknown]]
    /\ error = [r \in MuxJobs |-> "none"]
    /\ puppeteerData = [r \in MuxJobs |-> NoRecord]
    /\ muxResult = [r \in MuxJobs |-> "none"]
    /\ downloads = [r \in MuxJobs |-> 0]
    /\ response = [r \in MuxJobs |-> NoResponse]
    /\ files \in CachedFiles
    /\ partial = {}

\* Lines 348 and 944: a later request calls mergeVideoAudio, for any post
\* URL, after an earlier invocation has settled.
NewInvocation(r) ==
    /\ pc[r] = "settled"
    /\ \E u \in MuxUrls : url' = [url EXCEPT ![r] = u]
    /\ muxResult' = [muxResult EXCEPT ![r] = "none"]
    /\ downloads' = [downloads EXCEPT ![r] = 0]
    /\ error' = [error EXCEPT ![r] = "none"]
    /\ events' = [events EXCEPT ![r] = {"mux"}]
    /\ Goto(r, "mCheck")
    /\ UNCHANGED <<html, postData, trail, browserVars, files, partial, response>>

NextMux == \E r \in MuxJobs : Muxer(r) \/ NewInvocation(r)

SpecMux == InitMux /\ [][NextMux]_vars

(***************************************************************************)
(* The image quality selection: the textual pipeline answered from the     *)
(* pages of ResourcePages.                                                  *)
(***************************************************************************)
NextSelect ==
    \E r \in Requests :
        \/ Validate(r) \/ FetchFrom(r, ResourcePages)
        \/ Strategy1(r) \/ Strategy2(r) \/ Strategy3(r) \/ Strategy4(r) \/ Strategy5(r)
        \/ DecideFallback(r) \/ Respond(r)

SpecSelect == InitTextual /\ [][NextSelect]_vars

(***************************************************************************)
(* The video quality selection: a request for a video post whose page      *)
(* gives the textual strategies an image only, and a browser session that  *)
(* observes video responses only, so that no merge starts.                 *)
(***************************************************************************)
ImageOnlyPage == [EmptyPage EXCEPT !.meta = [NoMeta EXCEPT !.ogImage = <<"/mi">>]]

InitCapture == InitWith(MuxUrls, {{}})

NextCapture ==
    \E r \in Requests :
        \/ Validate(r) \/ FetchFrom(r, {ImageOnlyPage})
        \/ Strategy1(r) \/ Strategy2(r) \/ Strategy3(r) \/ Strategy4(r) \/ Strategy5(r)
        \/ DecideFallback(r)
        \/ Launch(r) \/ NewPage(r) \/ SetupPage(r) \/ OnVideoResponse(r)
        \/ Navigate(r) \/ Settle(r) \/ Evaluate(r) \/ CloseBrowser(r)
        \/ SelectMedia(r) \/ CatchClose(r) \/ Rethrow(r)
        \/ FallbackReturned(r) \/ Respond(r)

SpecCapture == InitCapture /\ [][NextCapture]_vars

(***************************************************************************)
(* The two entity decoders: the textual pipeline answered from the pages   *)
(* of EntityPages.                                                         *)
(***************************************************************************)
NextDecode ==
    \E r \in Requests :
        \/ Validate(r) \/ FetchFrom(r, EntityPages)
        \/ Strategy1(r) \/ Strategy2(r) \/ Strategy3(r) \/ Strategy4(r) \/ Strategy5(r)
        \/ DecideFallback(r) \/ Respond(r)

SpecDecode == InitTextual /\ [][NextDecode]_vars

(***************************************************************************)
(* The size-constraint stripping: the textual pipeline answered from the   *)
(* pages of StripPages.                                                    *)
(***************************************************************************)
NextStrip ==
    \E r \in Requests :
        \/ Validate(r) \/ FetchFrom(r, StripPages)
        \/ Strategy1(r) \/ Strategy2(r) \/ Strategy3(r) \/ Strategy4(r) \/ Strategy5(r)
        \/ DecideFallback(r) \/ Respond(r)

SpecStrip == InitTextual /\ [][NextStrip]_vars

(***************************************************************************)
(* The embedded-script search: the textual pipeline answered from the      *)
(* pages of ScriptPages.                                                   *)
(***************************************************************************)
NextScripts ==
    \E r \in Requests :
        \/ Validate(r) \/ FetchFrom(r, ScriptPages)
        \/ Strategy1(r) \/ Strategy2(r) \/ Strategy3(r) \/ Strategy4(r) \/ Strategy5(r)
        \/ DecideFallback(r) \/ Respond(r)

SpecScripts == InitTextual /\ [][NextScripts]_vars

(***************************************************************************)
(* The typing of records: the textual pipeline answered from the pages of  *)
(* TypedPages.                                                             *)
(***************************************************************************)
NextTyped ==
    \E r \in Requests :
        \/ Validate(r) \/ FetchFrom(r, TypedPages)
        \/ Strategy1(r) \/ Strategy2(r) \/ Strategy3(r) \/ Strategy4(r) \/ Strategy5(r)
        \/ DecideFallback(r) \/ Respond(r)

SpecTyped == InitTextual /\ [][NextTyped]_vars

(***************************************************************************)
(* Properties.                                                             *)
(***************************************************************************)
\* What strategy k finds in page h when nothing was found before it.
StrategyOut(k, h) ==
    CASE k = 1 -> InlineScan(h.inline)
      [] k = 2 -> EmbeddedScriptSearch(h, NoRecord)
      [] k = 3 -> JsonLdStrategy(h, NoRecord)
      [] k = 4 -> SharedDataStrategy(h, NoRecord)
      [] OTHER -> parseMetaTags(h.meta)

Yielding(h) == {k \in 1..5 : StrategyOut(k, h).mediaUrl # <<>>}

Lowest(ks) == CHOOSE k \in ks : \A j \in ks : k <= j

StrategyPcs == {"s1", "s2", "s3", "s4", "s5"}

\* C1: the strategies run in the order 1, 2, 3, 4, 5; none runs after one that
\* left a non-empty mediaUrl; each that runs leaves what it finds in the page;
\* and the record handed on after the cascade is the one of the
\* lowest-numbered strategy that finds a non-empty mediaUrl (no mediaUrl at
\* all, after all five have run, when none finds one).
C1_FixedOrderFirstWins ==
    \A r \in Requests :
        LET t == trail[r]
            h == html[r]
        IN  /\ \A i \in 1..Len(t) :
                 /\ t[i].id = i
                 /\ i > 1 => t[i - 1].out.mediaUrl = <<>>
                 /\ t[i].out.mediaUrl = StrategyOut(i, h).mediaUrl
                 /\ t[i].out.mediaUrl # <<>> => t[i].out = StrategyOut(i, h)
            /\ pc[r] \in StrategyPcs /\ t # <<>> => postData[r] = t[Len(t)].out
            /\ pc[r] = "decide" =>
                 /\ t # <<>> /\ postData[r] = t[Len(t)].out
                 /\ IF Yielding(h) # {}
                    THEN /\ Len(t) = Lowest(Yielding(h))
                         /\ postData[r] = StrategyOut(Lowest(Yielding(h)), h)
                    ELSE /\ Len(t) = 5
                         /\ postData[r].mediaUrl = <<>>

\* The JSON-LD block wins after the first two strategies found nothing.
C1_Witness ==
    \E r \in Requests :
        /\ pc[r] = "decide" /\ Len(trail[r]) = 3
        /\ postData[r].mediaUrl # <<>>
        /\ html[r].meta # NoMeta /\ html[r].sharedData.has_media

\* The record strategies 1 to 5 left, whatever the fallback did afterwards.
TextualRecord(r) == IF trail[r] = <<>> THEN NoRecord ELSE trail[r][Len(trail[r])].out

\* The handler is past the fallback decision.
Decided(r) ==
    pc[r] \notin {"start", "fetch", "decide"} \cup StrategyPcs /\ trail[r] # <<>>

\* C2: once the cascade has left an image record for a URL containing /reel/
\* or /tv/, the browser fallback is invoked; and when the fallback returned a
\* video record with a mediaUrl, that whole record replaces the textual one
\* and the answer is 200 with mediaType video and the fallback's fields.
C2_FallbackInvokedAndVideoWins ==
    \A r \in Requests :
        /\ Decided(r) /\ isVideoUrl(url[r]) /\ TextualRecord(r).mediaType = "image"
             => pc[r] = "launch" \/ "browser" \in events[r]
        /\ pc[r] \in {"respond", "done"} /\ puppeteerData[r].mediaUrl # <<>>
           /\ puppeteerData[r].mediaType = "video"
             => /\ postData[r] = puppeteerData[r]
                /\ pc[r] = "done" =>
                     /\ response[r].status = 200
                     /\ response[r].body.mediaType = "video"
                     /\ response[r].body.mediaUrl =
                            decodeUrlEntities(puppeteerData[r].mediaUrl)
                     /\ response[r].body.thumbnailUrl =
                            decodeUrlEntities(puppeteerData[r].thumbnailUrl)
                     /\ response[r].body.caption = puppeteerData[r].caption
                     /\ response[r].body.author = puppeteerData[r].author

\* A reel whose page gave an image is answered with the browser's video.
C2_Witness ==
    \E r \in Requests :
        /\ pc[r] = "done" /\ response[r].status = 200
        /\ response[r].body.mediaType = "video"
        /\ TextualRecord(r).mediaType = "image" /\ TextualRecord(r).mediaUrl # <<>>
        /\ TextualRecord(r).author # response[r].body.author
        /\ "browser" \in events[r]

\* The page exposes a video field and a display_url to the inline scan.
VideoAndDisplay(h) ==
    /\ h.inline.display_url # <<>>
    /\ \/ h.inline.video_url # <<>>
       \/ h.inline.playback_url # <<>>
       \/ h.inline.video_versions # <<>>

\* C3: for a page with a video field and a display_url, the inline scan
\* returns a video record whose mediaUrl is the unescaped, entity-decoded
\* text of the video field (video_url before playback_url before
\* video_versions), with no size-constraint stripping; no display_url,
\* display_resources or best_image_url text takes its place, and no later
\* strategy runs.
C3_VideoFieldWins ==
    \A r \in Requests :
        trail[r] # <<>> /\ VideoAndDisplay(html[r]) =>
            LET out == trail[r][1].out
                i == html[r].inline
                video == IF i.video_url # <<>> THEN i.video_url
                         ELSE IF i.playback_url # <<>> THEN i.playback_url
                         ELSE i.video_versions
            IN  /\ out.mediaType = "video"
                /\ out.mediaUrl = decodeUrlEntities(UnescapeJs(video))
                /\ Len(trail[r]) = 1
                /\ pc[r] # "s1" => postData[r] = out

\* A video URL that stripping would change is returned as it is.
C3_Witness ==
    \E r \in Requests :
        /\ pc[r] = "decide" /\ VideoAndDisplay(html[r])
        /\ postData[r].mediaType = "video"
        /\ StripSizeConstraints(postData[r].mediaUrl) # postData[r].mediaUrl
        /\ postData[r].mediaUrl # decodeUrlEntities(UnescapeJs(html[r].inline.display_url))

\* The page exposes a display_url and nothing else that carries media.
DisplayOnly(h) ==
    /\ h.inline.display_url # <<>>
    /\ h.inline.video_url = <<>> /\ h.inline.playback_url = <<>>
    /\ h.inline.video_versions = <<>>
    /\ ~h.inline.has_resources /\ h.inline.display_resources = <<>>
    /\ h.inline.best_image_url = <<>>
    /\ h.scripts = <<>> /\ h.jsonLd = NoJsonLd /\ h.sharedData = NoSharedData
    /\ h.meta = NoMeta

\* The display field's value, entity-decoded and then size-stripped.
DecodedAndStripped(h) ==
    StripSizeConstraints(decodeUrlEntities(UnescapeJs(h.inline.display_url)))

\* C4: for a page exposing only a display_url whose decoded and stripped
\* value is not empty, the answer is 200 with mediaType image and mediaUrl
\* equal to that decoded and size-stripped value.
C4_DisplayOnlyImage ==
    \A r \in Requests :
        pc[r] = "done" /\ DisplayOnly(html[r]) /\ DecodedAndStripped(html[r]) # <<>>
            => /\ response[r].status = 200
               /\ response[r].body.mediaType = "image"
               /\ response[r].body.mediaUrl = DecodedAndStripped(html[r])

\* The request passed validation and its page fetch succeeded.
Fetched(r) == "fetch" \in events[r] /\ error[r] \notin FetchErrors

C6_InvalidUrlRejectedAtOnce ==
    \A r \in Requests :
        url[r] = <<>> \/ ~isValidInstagramUrl(url[r]) =>
            /\ pc[r] \in {"start", "done"}
            /\ pc[r] = "done" => response[r] = Reply(400)
            /\ events[r] = {} /\ trail[r] = <<>> /\ postData[r] = NoRecord
            /\ browser[r] = "none" /\ puppeteerData[r] = NoRecord
            /\ muxResult[r] = "none" /\ downloads[r] = 0

\* A reel URL of another host has been answered 400.
C6_Witness ==
    \E r \in Requests :
        /\ pc[r] = "done" /\ response[r].status = 400
        /\ url[r] # <<>> /\ isVideoUrl(url[r])

\* The errors of a timeout: axios's two codes and puppeteer's TimeoutError.
FetchTimeouts == {"ECONNABORTED", "ETIMEDOUT"}

SessionPcs == {"newPage", "setup", "goto", "settle", "evaluate", "close", "catch"}

\* Control is back in the handler, or the error is on its way there.
BackInHandler(r) == pc[r] \in {"rethrow", "returned", "respond", "done"}

\* C8: a launched browser is open only while the fallback works on the page
\* or stands at the head of its catch block; whenever the fallback returns a
\* record, returns none, or throws again what a step threw, the browser it
\* launched is closed, and so it is while the muxer runs.
C8_BrowserClosedOnEveryExit ==
    \A r \in Requests :
        /\ browser[r] = "open" => pc[r] \in SessionPcs
        /\ BackInHandler(r) /\ "browser" \in events[r] /\ error[r] # "launch failed"
             => browser[r] = "closed"
        /\ pc[r] = "rethrow" => browser[r] # "open" /\ error[r] # "none"

\* The in-page scan threw, and the handler has control with the browser
\* closed.
C8_Witness ==
    \E r \in Requests :
        /\ pc[r] = "respond" /\ error[r] = "evaluate failed"
        /\ browser[r] = "closed" /\ observed[r] > 0

\* C9: when the mux invocation is rejected (a download or the remux step
\* failed), which only happens with audio captured, the fallback goes on to
\* return a video record whose mediaUrl is the cleaned best video URL, and
\* the request is answered 200 with that video record.
C9_MuxFailureKeepsVideo ==
    \A r \in Requests :
        muxResult[r] = "rejected" =>
            /\ audioUrls[r] # <<>> /\ videoUrls[r] # <<>>
            /\ pc[r] \in {"settled", "returned", "respond", "done"}
            /\ pc[r] # "settled" =>
                 /\ puppeteerData[r].mediaType = "video"
                 /\ puppeteerData[r].mediaUrl = cleanUrl(bestVideoUrl(videoUrls[r]))
                 /\ puppeteerData[r].mediaUrl # <<>>
            /\ pc[r] \in {"respond", "done"} => postData[r] = puppeteerData[r]
            /\ pc[r] = "done" =>
                 /\ response[r].status = 200
                 /\ response[r].body.mediaType = "video"
                 /\ response[r].body.mediaUrl =
                        decodeUrlEntities(cleanUrl(bestVideoUrl(videoUrls[r])))

\* The remux step failed and the request was answered with the video alone.
C9_Witness ==
    \E r \in Requests :
        /\ pc[r] = "done" /\ muxResult[r] = "rejected"
        /\ error[r] = "ffmpeg failed"
        /\ response[r].status = 200 /\ response[r].body.mediaType = "video"
        /\ Len(videoUrls[r]) > 0 /\ response[r].body.mediaUrl # videoUrls[r][1]

\* The mux invocation of r finds its output file in place.
CacheHit(r) == pc[r] = "mCheck" /\ outputPath(url[r]) \in files

\* The mux invocation of r resolved without a download: by a cache hit.
ResolvedFromCache(r) == muxResult[r] = "resolved" /\ downloads[r] = 0

\* C10: a mux invocation that finds a file at outputPath of its post URL
\* resolves at once, whatever stream URLs were captured, issuing no
\* download and changing no file; from then on the request starts no
\* download and no remux and changes no file, and the fallback's record
\* points at that cached path.
C10_CacheHitTouchesNothing ==
    [][\A r \in Requests :
          /\ CacheHit(r) /\ pc'[r] # pc[r] =>
                /\ pc'[r] = "settled" /\ muxResult'[r] = "resolved"
                /\ files' = files /\ partial' = partial
                /\ downloads'[r] = 0 /\ "download" \notin events'[r]
          /\ ResolvedFromCache(r) =>
                /\ files' = files /\ partial' = partial
                /\ downloads'[r] = 0 /\ "download" \notin events'[r]
                /\ pc'[r] \in {"settled", "returned", "respond", "done"}
                /\ pc[r] = "settled" /\ pc'[r] # pc[r] =>
                      puppeteerData'[r].mediaUrl = serverUrl(outputPath(url[r]))
      ]_vars

\* A request answered with the cached file of its post URL, no download
\* issued, the directory as it was.
C10_Witness ==
    \E r \in Requests :
        /\ pc[r] = "done" /\ ResolvedFromCache(r) /\ "mux" \in events[r]
        /\ response[r].status = 200
        /\ response[r].body.mediaUrl = serverUrl(outputPath(url[r]))
        /\ files = {outputPath(url[r])}

\* C11: a mux invocation running alone that has resolved has returned
\* outputPath of its post URL (the record the fallback builds points at it),
\* that file exists and is complete, and the video and audio input files of
\* the same key do not exist.
C11_SuccessLeavesOnlyOutput ==
    \A r \in Requests :
        muxResult[r] = "resolved" =>
            /\ outputPath(url[r]) \in files
            /\ outputPath(url[r]) \notin partial
            /\ videoPath(url[r]) \notin files
            /\ audioPath(url[r]) \notin files
            /\ pc[r] # "settled" =>
                  puppeteerData[r].mediaUrl = serverUrl(outputPath(url[r]))

\* Both downloads and the remux ran, and the request was answered.
C11_Witness ==
    \E r \in Requests :
        /\ pc[r] = "done" /\ muxResult[r] = "resolved" /\ downloads[r] = 2
        /\ files = {outputPath(url[r])}

\* The three files of the cache key of a post URL.
KeyFiles(instagramUrl) ==
    {videoPath(instagramUrl), audioPath(instagramUrl), outputPath(instagramUrl)}

\* C12: once a mux invocation has been rejected (at the video download, the
\* audio download or the remux step), none of the video, audio and output
\* files of its cache key exists.
C12_FailureLeavesNoFile ==
    \A r \in Requests :
        muxResult[r] = "rejected" => files \cap KeyFiles(url[r]) = {}

\* C13: a file at the output path that an invocation has returned is deleted
\* by no step of any job; stated for the invocations that returned the path
\* after their own completed remux.
C13_ReturnedOutputStays ==
    [][\A r \in MuxJobs :
          (muxResult[r] = "resolved" /\ downloads[r] = 2
              /\ outputPath(url[r]) \in files)
              => outputPath(url[r]) \in files'
      ]_vars

\* The jobs still at work on their invocation.
Working(r) ==
    pc[r] \in {"mCheck", "video", "videoWait", "audio", "audioWait", "ffmpeg",
               "ffmpegWait"}

\* C14: whatever another job is doing, an invocation that finds no output
\* file starts its own video download; each download it starts is counted
\* to it and opens the video or audio path of its post URL; it resolves from
\* a remux only after its own two downloads; and a job at work always has a
\* step of its own to take, so it never waits for another job.
C14_NoDeduplication ==
    [][\A r \in MuxJobs :
          /\ Working(r) => ENABLED Muxer(r)
          /\ pc[r] = "mCheck" /\ outputPath(url[r]) \notin files /\ pc'[r] # pc[r]
                => pc'[r] = "video"
          /\ pc[r] = "video" /\ pc'[r] # pc[r]
                => /\ pc'[r] = "videoWait" /\ downloads'[r] = 1
                   /\ videoPath(url[r]) \in files'
          /\ pc[r] = "audio" /\ pc'[r] # pc[r]
                => /\ pc'[r] = "audioWait" /\ downloads'[r] = 2
                   /\ audioPath(url[r]) \in files'
          /\ pc[r] = "ffmpeg" /\ pc'[r] = "ffmpegWait"
                => downloads[r] = 2 /\ outputPath(url[r]) \in partial'
          /\ pc[r] = "ffmpegWait" /\ muxResult'[r] = "resolved" => downloads[r] = 2
      ]_vars

\* Two invocations for one post URL run their remux at the same time, each
\* after its own two downloads.
C14_Witness ==
    /\ url["j1"] = url["j2"]
    /\ pc["j1"] = "ffmpegWait" /\ pc["j2"] = "ffmpegWait"
    /\ downloads["j1"] = 2 /\ downloads["j2"] = 2

\* The path is one of the cache key of the post URL: TEMP_DIR/<hash>_...
OfKey(path, instagramUrl) ==
    /\ Len(path) = Len(Md5(instagramUrl)) + 2
    /\ SubSeq(path, 2, Len(path) - 1) = Md5(instagramUrl)

\* C15: a step of a job creates, completes or deletes only files of the
\* cache key of its own post URL; so jobs for post URLs of different keys
\* leave each other's video, audio and output files as they are.
C15_OwnKeyOnly ==
    [][\A r \in MuxJobs :
          pc'[r] # pc[r] =>
              /\ \A path \in (files \ files') \cup (files' \ files) :
                    OfKey(path, url[r])
              /\ \A path \in (partial \ partial') \cup (partial' \ partial) :
                    OfKey(path, url[r])
              /\ \A q \in MuxJobs :
                    url[q] # url[r] =>
                        files' \cap KeyFiles(url[q]) = files \cap KeyFiles(url[q])
      ]_vars

\* Jobs for two post URLs have both settled, one by a merge and one by a
\* failed remux, and the merged file of the first is in place.
C15_Witness ==
    /\ url["j1"] # url["j2"]
    /\ pc["j1"] = "settled" /\ muxResult["j1"] = "resolved" /\ downloads["j1"] = 2
    /\ pc["j2"] = "settled" /\ error["j2"] = "ffmpeg failed"
    /\ outputPath(url["j1"]) \in files

Area(resource) == resource.w * resource.h

AllPositive(rs) == \A i \in 1..Len(rs) : rs[i].w > 0 /\ rs[i].h > 0

\* The position of the first entry of the greatest area.
FirstOfMaxArea(rs) ==
    CHOOSE i \in 1..Len(rs) :
        /\ \A j \in 1..Len(rs) : Area(rs[j]) <= Area(rs[i])
        /\ \A j \in 1..(i - 1) : Area(rs[j]) < Area(rs[i])

\* Strategy k, once it has run, has left the src of that entry as mediaUrl.
SelectedAt(k, rs, t) ==
    Len(t) >= k => t[k].out.mediaUrl = rs[FirstOfMaxArea(rs)].src

ScriptResources(h) ==
    IF h.scripts = <<>> THEN <<>>
    ELSE h.scripts[1].cands[1].root.display_resources

\* C16: in each of the three places (the inline display_resources scan, the
\* object of an embedded script, the shortcode_media of _sharedData), for a
\* display_resources array whose entries all have positive width and
\* height, the loop selects the entry of the greatest width*height, the
\* first of them in the array's order when several share it, and the
\* strategy leaves the src of that entry as the mediaUrl.
C16_FirstMaxAreaSelected ==
    \A r \in Requests :
        LET h == html[r]
            t == trail[r]
            inlineRs == h.inline.display_resources
            scriptRs == ScriptResources(h)
            sharedRs == h.sharedData.media.display_resources
        IN  /\ inlineRs # <<>> /\ AllPositive(inlineRs)
                  => /\ InlineBest(inlineRs) = inlineRs[FirstOfMaxArea(inlineRs)].src
                     /\ SelectedAt(1, inlineRs, t)
            /\ scriptRs # <<>> /\ AllPositive(scriptRs)
                  => /\ ObjectBest(scriptRs) = scriptRs[FirstOfMaxArea(scriptRs)].src
                     /\ SelectedAt(2, scriptRs, t)
            /\ sharedRs # <<>> /\ AllPositive(sharedRs)
                  => /\ ObjectBest(sharedRs) = sharedRs[FirstOfMaxArea(sharedRs)].src
                     /\ SelectedAt(4, sharedRs, t)

\* The inline scan has run on an array of three entries of areas 1, 2 and 2
\* (1x2 and 2x1) and has left the src of the second entry.
C16_Witness ==
    \E r \in Requests :
        LET rs == html[r].inline.display_resources
        IN  /\ Len(rs) = 3 /\ AllPositive(rs)
            /\ Area(rs[1]) = 1
            /\ rs[2].w = 1 /\ rs[2].h = 2
            /\ rs[3].w = 2 /\ rs[3].h = 1
            /\ Len(trail[r]) >= 1
            /\ trail[r][1].out.mediaUrl = rs[2].src
            /\ response[r].status = 200

\* The priority order of the quality tokens, best first.
TokenPriority == <<"q90", "q80", "q70", "q60", "q50", "q40">>

\* The positions in TokenPriority of the tokens some URL of urls holds.
TokensFound(urls) ==
    {i \in 1..Len(TokenPriority) :
        \E k \in 1..Len(urls) : TokenPriority[i] \in Range(urls[k])}

\* The first URL holding the best token found, the first URL when no token
\* is found.
FirstWithBestToken(urls) ==
    IF TokensFound(urls) = {} THEN urls[1]
    ELSE LET best == CHOOSE i \in TokensFound(urls) :
                         \A j \in TokensFound(urls) : i <= j
             at == CHOOSE k \in 1..Len(urls) :
                       /\ TokenPriority[best] \in Range(urls[k])
                       /\ \A j \in 1..(k - 1) : TokenPriority[best] \notin Range(urls[j])
         IN  urls[at]

\* C17: for every non-empty list of captured video URLs the fallback selects
\* the first URL, in capture order, that contains the highest-priority
\* quality token (q90 > q80 > q70 > q60 > q50 > q40) found in any captured
\* URL, and the first captured URL when none contains a token; the record
\* the fallback returns without a merge carries that URL.
C17_BestTokenFirstUrl ==
    \A r \in Requests :
        videoUrls[r] # <<>> =>
            /\ bestVideoUrl(videoUrls[r]) = FirstWithBestToken(videoUrls[r])
            /\ pc[r] = "returned" /\ audioUrls[r] = <<>>
                  => puppeteerData[r].mediaUrl = FirstWithBestToken(videoUrls[r])

\* Two URLs were captured, a q60 one and then one holding q60 and q90, and
\* the fallback returned the second.
C17_Witness ==
    \E r \in Requests :
        /\ Len(videoUrls[r]) = 2
        /\ "q90" \notin Range(videoUrls[r][1]) /\ "q60" \in Range(videoUrls[r][1])
        /\ "q90" \in Range(videoUrls[r][2])
        /\ pc[r] = "returned"
        /\ puppeteerData[r].mediaUrl = videoUrls[r][2]

\* C18: decodeUrlEntities applied to its own result returns it unchanged,
\* for the display_url of every page (doubly and triply encoded "&"
\* included), and the thumbnailUrl the inline scan leaves, which it has
\* passed through decodeUrlEntities, is such a result.
C18_UrlDecoderIdempotent ==
    \A r \in Requests :
        LET s == html[r].inline.display_url
        IN  /\ decodeUrlEntities(decodeUrlEntities(s)) = decodeUrlEntities(s)
            /\ Len(trail[r]) >= 1 =>
                  decodeUrlEntities(trail[r][1].out.thumbnailUrl)
                      = trail[r][1].out.thumbnailUrl

\* The inline scan has run on a display_url ending in the triply encoded
\* "&amp;amp;amp;" and has left a thumbnailUrl ending in a plain "&".
C18_Witness ==
    \E r \in Requests :
        /\ html[r].inline.display_url = <<"/d1", "&", "amp;", "amp;", "amp;">>
        /\ Len(trail[r]) >= 1
        /\ trail[r][1].out.thumbnailUrl = <<"/d1", "&">>

\* C19: decodeHtmlEntities applied to its own result returns it unchanged,
\* for the caption of every page (doubly and triply encoded entities
\* included), and the caption the inline scan leaves, which it has passed
\* through decodeHtmlEntities, is such a result.
C19_HtmlDecoderIdempotent ==
    \A r \in Requests :
        LET s == html[r].inline.caption
        IN  /\ decodeHtmlEntities(decodeHtmlEntities(s)) = decodeHtmlEntities(s)
            /\ Len(trail[r]) >= 1 =>
                  decodeHtmlEntities(trail[r][1].out.caption)
                      = trail[r][1].out.caption

\* C20: the strip sequence (removal of the listed query parameters and of
\* the size segment of the path, then the separator clean-up) applied to a
\* URL it has already stripped returns it unchanged, for the display_url of
\* every page, and the mediaUrl the inline scan leaves for an image, which it
\* has passed through the sequence, is such a URL.
C20_StripIdempotent ==
    \A r \in Requests :
        LET u == html[r].inline.display_url
        IN  /\ StripSizeConstraints(StripSizeConstraints(u)) = StripSizeConstraints(u)
            /\ Len(trail[r]) >= 1 /\ trail[r][1].out.mediaType = "image" =>
                  StripSizeConstraints(trail[r][1].out.mediaUrl)
                      = trail[r][1].out.mediaUrl

\* The inline scan has run on a display_url with a size segment and a
\* removed parameter, and has left the path alone.
C20_Witness ==
    \E r \in Requests :
        /\ html[r].inline.display_url = <<"/a", "/s640x640_e-jpg", "?", "stp=1">>
        /\ Len(trail[r]) >= 1
        /\ trail[r][1].out.mediaType = "image"
        /\ trail[r][1].out.mediaUrl = <<"/a">>

\* The positions of the candidates that parse and give a record with a
\* mediaUrl.
YieldingCands(cands) ==
    {j \in 1..Len(cands) :
        ~cands[j].bad /\ findMediaData(cands[j]).mediaUrl # <<>>}

\* Some candidate JSON.parse throws on stands before position j.
MalformedBefore(cands, j) == \E i \in 1..(j - 1) : cands[i].bad

\* C21: a candidate JSON.parse throws on is skipped: when such a candidate
\* stands before the first candidate that parses and carries a media field,
\* the embedded-script strategy leaves the record of that candidate; and
\* when the strategy leaves no mediaUrl, whatever it threw on, strategies 3,
\* 4 and 5 run after it.
C21_MalformedCandidateSkipped ==
    \A r \in Requests :
        LET cands == ScriptCandidates(html[r].scripts)
            ys == YieldingCands(cands)
            t == trail[r]
        IN  Len(t) >= 2 =>
              /\ ys # {} /\ MalformedBefore(cands, Lowest(ys))
                    => t[2].out = findMediaData(cands[Lowest(ys)])
              /\ t[2].out.mediaUrl = <<>> /\ pc[r] \notin StrategyPcs
                    => /\ Len(t) = 5
                       /\ t[5].out = parseMetaTags(html[r].meta)

\* The strategy has met a candidate it could not parse, then an object
\* without a media field, then an object with a display_url, and has left
\* the record of the third.
C21_Witness ==
    \E r \in Requests :
        LET cands == ScriptCandidates(html[r].scripts)
        IN  /\ Len(cands) = 3
            /\ cands[1].bad /\ ~cands[2].bad /\ ~cands[3].bad
            /\ ~HasMediaField(cands[2].root) /\ cands[2].kids = <<>>
            /\ Len(trail[r]) = 2
            /\ trail[r][2].out.mediaUrl = cands[3].root.display_url
            /\ trail[r][2].out.mediaType = "image"

\* C22: whenever the record the strategies left holds a capture timestamp,
\* the timestamp of the 200 answer is that capture time.
C22_CaptureTimeReachesCaller ==
    \A r \in Requests :
        response[r].status = 200 /\ TextualRecord(r).timestamp # NoTime
            => response[r].body.timestamp = TextualRecord(r).timestamp

\* The fallback has returned, without throwing, from a session that
\* captured video and no audio.
ReturnedVideoOnly(r) ==
    /\ pc[r] \in {"returned", "respond", "done"}
    /\ browser[r] = "closed" /\ error[r] = "none"
    /\ videoUrls[r] # <<>> /\ audioUrls[r] = <<>>

\* C23: when the fallback captured at least one video URL and no audio URL
\* it returns the video-only record, whose mediaUrl is the best video URL
\* with its byte-range parameters removed and whose mediaType is video, and
\* the muxer is not invoked: nothing is downloaded and TEMP_DIR holds what it
\* held when the request came in.
C23_VideoOnlyWithoutMuxer ==
    \A r \in Requests :
        ReturnedVideoOnly(r) =>
            /\ puppeteerData[r].mediaUrl = cleanUrl(FirstWithBestToken(videoUrls[r]))
            /\ puppeteerData[r].mediaType = "video"
            /\ events[r] \cap {"mux", "download"} = {}
            /\ muxResult[r] = "none" /\ downloads[r] = 0
            /\ files \in CachedFiles /\ partial = {}
            /\ files \cap {videoPath(url[r]), audioPath(url[r])} = {}

\* The session captured the q60 video with a byte range and nothing else,
\* and the request was answered with that URL without its byte range.
C23_Witness ==
    \E r \in Requests :
        /\ ReturnedVideoOnly(r)
        /\ pc[r] = "done" /\ response[r].status = 200
        /\ videoUrls[r] = <<<<"cdn", "/m367/", "q60", ".mp4", "?", "bytestart=0", "&", "k=1">>>>
        /\ response[r].body.mediaUrl = <<"cdn", "/m367/", "q60", ".mp4", "?", "k=1">>
        /\ response[r].body.mediaType = "video"

\* Every entry of the array is without a width or without a height.
AllUnsized(rs) == rs # <<>> /\ \A i \in 1..Len(rs) : ~rs[i].cfg

\* Every entry of the array has no width or no height for the object loops:
\* the property is missing, or 0.
AllZeroArea(rs) == rs # <<>> /\ \A i \in 1..Len(rs) : rs[i].w = 0 \/ rs[i].h = 0

\* Strategy k, once it has run, has left the src at position i as mediaUrl.
LeftSrcAt(k, rs, t, i) == Len(t) >= k => t[k].out.mediaUrl = rs[i].src

\* C24 as claimed: for a display_resources array whose entries all lack
\* width and height, the first entry in the array's order is selected.
C24_UnsizedFirstSelected ==
    \A r \in Requests :
        LET h == html[r]
            t == trail[r]
            inlineRs == h.inline.display_resources
            scriptRs == ScriptResources(h)
        IN  /\ AllUnsized(inlineRs) => LeftSrcAt(1, inlineRs, t, 1)
            /\ AllUnsized(scriptRs) => LeftSrcAt(2, scriptRs, t, 1)

\* C24 as the code has it: entries without width or height are passed
\* over by the area loop, and for an array whose entries all lack them the
\* last entry in the array's order is selected, in the inline scan, in the
\* object of an embedded script and in the shortcode_media of _sharedData.
C24_UnsizedLastSelected ==
    \A r \in Requests :
        LET h == html[r]
            t == trail[r]
            inlineRs == h.inline.display_resources
            scriptRs == ScriptResources(h)
            sharedRs == h.sharedData.media.display_resources
        IN  /\ AllUnsized(inlineRs) => LeftSrcAt(1, inlineRs, t, Len(inlineRs))
            /\ AllZeroArea(scriptRs)
                  => /\ ObjectBest(scriptRs) = <<>>
                     /\ LeftSrcAt(2, scriptRs, t, Len(scriptRs))
            /\ AllZeroArea(sharedRs)
                  => /\ ObjectBest(sharedRs) = <<>>
                     /\ LeftSrcAt(4, sharedRs, t, Len(sharedRs))

\* The inline scan has run on an array of three entries without width and
\* height and has left the src of the third.
C24_Witness ==
    \E r \in Requests :
        LET rs == html[r].inline.display_resources
        IN  /\ Len(rs) = 3 /\ AllUnsized(rs)
            /\ Len(trail[r]) >= 1
            /\ trail[r][1].out.mediaUrl = rs[3].src
            /\ trail[r][1].out.mediaUrl # rs[1].src

QueryParams == {"stp=1", "ccb=1", "k=1"}

\* A path, "?", and parameters with "&" between them.
PathAndQuery(u) ==
    /\ Len(u) >= 3 /\ Len(u) % 2 = 1
    /\ u[1] = "/a" /\ u[2] = "?"
    /\ \A i \in 3..Len(u) :
          IF i % 2 = 1 THEN u[i] \in QueryParams ELSE u[i] = "&"

\* The parameters of u outside the removal set, in order.
KeptParams(u) ==
    SelectSeq([i \in 1..((Len(u) - 1) \div 2) |-> u[2 * i + 1]],
              LAMBDA param : \A k \in 1..Len(RemovedParams) : param \notin RemovedParams[k])

RECURSIVE JoinedWithAmp(_)
JoinedWithAmp(params) ==
    IF Len(params) = 1 THEN params
    ELSE <<Head(params), "&">> \o JoinedWithAmp(Tail(params))

\* The path alone, or the path, one "?" and the kept parameters with
\* single "&" between them.
OnlyRemoved(u) ==
    IF KeptParams(u) = <<>> THEN <<u[1]>>
    ELSE <<u[1], "?">> \o JoinedWithAmp(KeptParams(u))

\* C25: the strip sequence only removes: of a URL made of a path, "?" and
\* parameters, every parameter outside the removal set stays, with its value
\* and in its order, and when one stays the result has the path, exactly one
\* "?", and the parameters with single "&" between them.
C25_StripOnlyRemoves ==
    \A r \in Requests :
        LET u == html[r].inline.display_url
        IN  PathAndQuery(u) =>
              /\ StripSizeConstraints(u) = OnlyRemoved(u)
              /\ Len(trail[r]) >= 1 => trail[r][1].out.mediaUrl = OnlyRemoved(u)

\* The path segment before the shortcode: /p/, /reel/ or /tv/.
PostKind(instagramUrl) == AfterHost(instagramUrl)[1]

\* C26: a browser is launched for a request only when the path segment of
\* its URL is reel or tv and strategies 1 to 5 left an image record: never
\* for a /p/ URL, never after a video record, never after no record.
C26_FallbackOnlyForVideoPosts ==
    \A r \in Requests :
        "browser" \in events[r] =>
            /\ PostKind(url[r]) \in {"/reel/", "/tv/"}
            /\ TextualRecord(r).mediaType = "image"

\* The fallback gave the handler a video record.
FallbackGaveVideo(r) ==
    puppeteerData[r].mediaUrl # <<>> /\ puppeteerData[r].mediaType = "video"

\* The fields of a record other than its timestamp.
MediaFields(data) ==
    <<data.mediaUrl, data.thumbnailUrl, data.caption, data.author, data.mediaType>>

\* C27: when the textual strategies left a record with a media URL, the
\* fallback was started and it threw or returned no video record, the
\* handler keeps that image record and answers 200 with its fields, the
\* answer being the one the record gets without a fallback.
C27_FailedFallbackKeepsTextual ==
    \A r \in Requests :
        ( /\ "browser" \in events[r] /\ pc[r] \in {"respond", "done"}
          /\ TextualRecord(r).mediaUrl # <<>> /\ ~FallbackGaveVideo(r) )
            => /\ postData[r] = TextualRecord(r)
               /\ postData[r].mediaType = "image"
               /\ (pc[r] = "done") =>
                     /\ response[r].status = 200
                     /\ MediaFields(response[r].body) = MediaFields(TextualRecord(r))
                     /\ \E now \in Times :
                           response[r].body = ResponseBody(TextualRecord(r), now)

\* The navigation timed out and the request was answered 200 with the
\* image of the page.
C27_Witness ==
    \E r \in Requests :
        /\ pc[r] = "done" /\ error[r] = "TimeoutError"
        /\ browser[r] = "closed" /\ puppeteerData[r] = NoRecord
        /\ response[r].status = 200
        /\ response[r].body.mediaType = "image"
        /\ response[r].body.mediaUrl = decodeUrlEntities(TextualRecord(r).mediaUrl)

\* Job q's ffmpeg has opened the output file of job r's key and has not
\* ended.
StillWriting(q, r) ==
    pc[q] = "ffmpegWait" /\ outputPath(url[q]) = outputPath(url[r])

\* C28: an invocation that returns the output path from the cache test
\* does so while no other invocation's ffmpeg is still writing that file.
C28_CacheHitIsComplete ==
    [][\A r \in MuxJobs :
          (pc[r] = "mCheck" /\ pc'[r] = "settled" /\ muxResult'[r] = "resolved")
              => \A q \in MuxJobs \ {r} : ~StillWriting(q, r)]_vars

\* The video_url of every object of every candidate of the scripts.
ScriptVideoFields(scripts) ==
    UNION {UNION {{c.root.video_url} \cup {c.kids[k].video_url : k \in DOMAIN c.kids} :
                    c \in {scripts[i].cands[n] : n \in DOMAIN scripts[i].cands}} :
             i \in DOMAIN scripts}

\* The texts of the video fields of a page, as they are written in it.
VideoFields(h) ==
    ({h.inline.video_url, h.inline.playback_url, h.inline.video_versions,
      h.jsonLd.contentUrl, h.sharedData.media.video_url,
      h.meta.ogVideo, h.meta.twitterPlayer}
        \cup ScriptVideoFields(h.scripts)) \ {<<>>}

\* What a strategy can make of them: unescaped or not, then decoded.
VideoValues(h) ==
    {decodeUrlEntities(v) : v \in VideoFields(h)}
        \cup {decodeUrlEntities(UnescapeJs(v)) : v \in VideoFields(h)}

\* C29: the mediaUrl of every record a strategy leaves with mediaType
\* video and a media URL is the value of a video field of the page.
C29_VideoRecordHasVideoUrl ==
    \A r \in Requests :
        \A i \in DOMAIN trail[r] :
            (trail[r][i].out.mediaType = "video" /\ trail[r][i].out.mediaUrl # <<>>)
                => trail[r][i].out.mediaUrl \in VideoValues(html[r])

\* C30: every invocation of mergeVideoAudio eventually settles, resolved or
\* rejected, and the request that made it is eventually answered.
C30_MuxEventuallySettles ==
    \A r \in Requests :
        /\ (pc[r] = "mCheck") ~> (muxResult[r] # "none")
        /\ (pc[r] = "mCheck") ~> (pc[r] = "done")

====
